---- MODULE Spec2Model ----
(***************************************************************************)
(* A model of the crawl-and-extract engine of cbrescraper:                 *)
(*   - GenericCrawler (src/crawler_app/scraper.py): the browser session,   *)
(*     get_links (pagination, dedup, limit), scrape_details and            *)
(*     scrape_property as far as navigation and persistence go;            *)
(*   - VectorDB (src/crawler_app/vector_db.py): exists / upsert_person /   *)
(*     upsert_property;                                                    *)
(*   - main (src/run_pipeline.py): the pipeline driver;                    *)
(*   - stop_scrape (src/cbre_ui/backend/main.py): termination of the       *)
(*     pipeline process.                                                   *)
(*                                                                         *)
(* Strings that the code takes apart (URLs) are sequences of tokens; the   *)
(* web site, the browser library and the content store are environments    *)
(* whose answers and failures are chosen nondeterministically.             *)
(***************************************************************************)
EXTENDS Integers, Sequences, FiniteSets, TLC

----------------------------------------------------------------------------
(* Bounds of the model *)

\* the number of result pages of a directory site
MaxSitePages == 2
\* the largest --limit value tried
MaxLimit == 2
\* how many Next clicks the site may render late or drop in one enumeration
MaxSlowClicks == 2
\* the number of calls in a free sequence of crawler calls
MaxCalls == 3
\* the number of background launch tasks of the run controller
MaxTasks == 3
\* the most digits after the area code of a phone number
MaxSubscriber == 8
\* the most lines of content of the card that holds a profile's transactions
MaxTxLines == 8
\* the most brochure candidates found on a property page
MaxCandidates == 2
\* the most phone links found on a profile page
MaxPhones == 2

(* Program constants *)

\* scraper.py:223  if page_num > 50: break
SafetyCap == 50

----------------------------------------------------------------------------
(* Values *)

\* Python's None, for handles and optional strings
None == "None"

\* an optional integer (argparse --limit, default None): <<>> is None
NoLimit == <<>>

\* Python truthiness of an optional integer: None and 0 are falsy
Truthy(opt) == opt # NoLimit /\ opt[1] # 0

Min(a, b) == IF a <= b THEN a ELSE b

Origin == "https://www.cbre.com"
StagingOrigin == "https://test-www1.cbre.com"
Origins == {Origin, StagingOrigin}

\* the selectors of the three call sites of get_links
CoveoCard == ".CoveoResult"
PropCard == ".cbre-c-pl-property-card-link"
TitleLink == "a.cbre-c-listCards__title-link"
PropHeading == ".cbre-c-pl-property-card-heading"

VARIABLES
    \* ---- GenericCrawler: the session handles (scraper.py:15-18)
    playwright, browser, context, page,
    \* the resources really open in the operating system, by kind
    live,
    \* the last navigation: the method that navigated, whether it was entered
    \* with no page, and the page handle at its page.goto ("-": not yet)
    nav,
    \* ---- the directory site (environment)
    site,            \* the result pages, each a sequence of cards
    sitePos,         \* the page the site shows now
    pendingClicks,   \* Next clicks dispatched and not rendered yet
    slowClicks,      \* late or dropped clicks so far
    \* ---- get_links: arguments and locals
    directory_url, card_selector, link_selector, name_selector, limit,
    results, cards, page_num, first_name_before,
    glPc,            \* position in get_links
    harvested        \* the site pages harvested so far, in order

sessVars == <<playwright, browser, context, page, live>>
siteVars == <<site, sitePos, pendingClicks, slowClicks>>
glArgs == <<directory_url, card_selector, link_selector, name_selector, limit>>
glVars == <<results, cards, page_num, first_name_before, glPc, harvested>>

----------------------------------------------------------------------------
(* The session: start_browser and close_browser *)

Kinds == <<"page", "context", "browser", "playwright">>

NoneLive == [k \in {"page", "context", "browser", "playwright"} |-> 0]

Session(pw, br, cx, pg, lv, raised) ==
    [playwright |-> pw, browser |-> br, context |-> cx, page |-> pg,
     live |-> lv, raised |-> raised]

\* the session as it is
Here == Session(playwright, browser, context, page, live, FALSE)

\* start_browser with the guard left out: a faulty variant of StartBrowser
StartBrowserUnguarded(fault) ==
    LET n == IF fault = 0 THEN 4 ELSE fault - 1
    IN Session(IF n >= 1 THEN "open" ELSE playwright,
               IF n >= 2 THEN "open" ELSE browser,
               IF n >= 3 THEN "open" ELSE context,
               IF n >= 4 THEN "open" ELSE page,
               [k \in DOMAIN live |->
                   live[k] + (IF \/ k = "playwright" /\ n >= 1
                                 \/ k = "browser" /\ n >= 2
                                 \/ k = "context" /\ n >= 3
                                 \/ k = "page" /\ n >= 4 THEN 1 ELSE 0)],
               fault # 0)

\* start_browser. fault = 0: every step succeeds; fault = k in 1..4: the k-th
\* of sync_playwright().start(), launch, new_context, new_page raises, after
\* the steps before it were assigned.
StartBrowser(fault) ==
    IF playwright # None
    THEN Here
    ELSE LET n == IF fault = 0 THEN 4 ELSE fault - 1
         IN Session(IF n >= 1 THEN "open" ELSE None,
                    IF n >= 2 THEN "open" ELSE None,
                    IF n >= 3 THEN "open" ELSE None,
                    IF n >= 4 THEN "open" ELSE None,
                    [k \in DOMAIN live |->
                        live[k] + (IF \/ k = "playwright" /\ n >= 1
                                      \/ k = "browser" /\ n >= 2
                                      \/ k = "context" /\ n >= 3
                                      \/ k = "page" /\ n >= 4 THEN 1 ELSE 0)],
                    fault # 0)

Handle(s, k) ==
    CASE k = "page" -> s.page
      [] k = "context" -> s.context
      [] k = "browser" -> s.browser
      [] k = "playwright" -> s.playwright

WithHandle(s, k, v) ==
    CASE k = "page" -> [s EXCEPT !.page = v]
      [] k = "context" -> [s EXCEPT !.context = v]
      [] k = "browser" -> [s EXCEPT !.browser = v]
      [] k = "playwright" -> [s EXCEPT !.playwright = v]

\* the closes of close_browser from the i-th on: a handle that is set is
\* closed, unless its close is the one that raises (fault = i), which ends
\* the method at once; the handles are reset only when no close raised
RECURSIVE CloseFrom(_, _, _)
CloseFrom(s, i, fault) ==
    IF i > Len(Kinds)
    THEN Session(None, None, None, None, s.live, FALSE)
    ELSE LET k == Kinds[i]
         IN IF Handle(s, k) = None
            THEN CloseFrom(s, i + 1, fault)
            ELSE IF fault = i
                 THEN [s EXCEPT !.raised = TRUE]
                 ELSE CloseFrom([WithHandle(s, k, "closed") EXCEPT
                                    !.live[k] = IF Handle(s, k) = "open"
                                                THEN s.live[k] - 1
                                                ELSE s.live[k]],
                                i + 1, fault)

\* close_browser. fault = 0: no close raises; fault = i: the close of the
\* i-th handle (page, context, browser, driver) raises, if that handle is set.
CloseBrowser(fault) == CloseFrom(Here, 1, fault)

SetSession(s) ==
    /\ playwright' = s.playwright
    /\ browser' = s.browser
    /\ context' = s.context
    /\ page' = s.page
    /\ live' = s.live

\* "if not self.page: self.start_browser()"
LazyInit(fault) == IF page = None THEN StartBrowser(fault) ELSE Here

NoNav == [op |-> "none", lazy |-> FALSE, page |-> "-"]

StartFaults == 0..4
CloseFaults == 0..4

----------------------------------------------------------------------------
(* URLs as token sequences *)

Separators == {"?", "&"}
CountParams == {"numberOfResults=9"}
FirstParams == {"first=10"}

\* re.sub(r'([?&])<name>=\d+', '', url): every separator followed by such a
\* parameter goes, together with the parameter
RECURSIVE RemoveParam(_, _)
RemoveParam(u, params) ==
    IF Len(u) < 2
    THEN u
    ELSE IF u[1] \in Separators /\ u[2] \in params
         THEN RemoveParam(SubSeq(u, 3, Len(u)), params)
         ELSE <<u[1]>> \o RemoveParam(Tail(u), params)

\* str.replace(a + b, b') on adjacent separator tokens, left to right
RECURSIVE ReplacePair(_, _, _, _)
ReplacePair(u, a, b, by) ==
    IF Len(u) < 2
    THEN u
    ELSE IF u[1] = a /\ u[2] = b
         THEN <<by>> \o ReplacePair(SubSeq(u, 3, Len(u)), a, b, by)
         ELSE <<u[1]>> \o ReplacePair(Tail(u), a, b, by)

\* scraper.py:108-112
CleanUrl(u) ==
    LET a == RemoveParam(u, CountParams)
        b == RemoveParam(a, FirstParams)
        c == ReplacePair(ReplacePair(b, "&", "&", "&"), "?", "&", "?")
    IN IF c # <<>> /\ c[Len(c)] \in Separators
       THEN SubSeq(c, 1, Len(c) - 1)
       ELSE c

\* urljoin(base, href) for an absolute href and for a path-absolute one
UrlJoin(base, href) ==
    IF href[1] \in Origins THEN href ELSE <<base[1]>> \o href

----------------------------------------------------------------------------
(* The directory site *)

\* a result card: the text of its name element and the href of its link
\* (<<>>: the card has no link)
Card(name, href) == [name |-> name, href |-> href]

CardAnn == Card("Ann Lee", <<"/people", "/ann-lee">>)
CardAnnAbs == Card("Ann Lee", <<Origin, "/people", "/ann-lee">>)
CardBob == Card("Bob Roe", <<"/people", "/ann-lee">>)
CardNoName == Card("", <<"/people", "/cy">>)
CardNoLink == Card("Dee Poe", <<>>)

\* the result pages a site is made of
PageKinds ==
    { <<CardAnn, CardBob>>,
      <<CardAnnAbs, CardNoLink>>,
      <<CardNoName, CardAnn>>,
      <<CardBob, CardBob, CardNoName>>,
      <<>> }

\* a site whose Next control stays visible on the last page too
StickySites ==
    { [pages |-> <<p>>, sticky |-> TRUE] : p \in PageKinds }

\* one site of one page more, its pages told apart by their first card
LongSite ==
    [pages |-> [k \in 1..(MaxSitePages + 1) |->
                    << <<CardAnn, CardBob>>, <<CardNoName, CardAnn>>,
                       <<CardBob, CardBob, CardNoName>> >>[(k % 3) + 1]],
     sticky |-> FALSE]

Sites ==
    { [pages |-> ps, sticky |-> FALSE] :
        ps \in UNION { [1..n -> PageKinds] : n \in 1..MaxSitePages } }
    \cup StickySites \cup {LongSite}

Limits == {NoLimit} \cup { <<n>> : n \in 0..MaxLimit }

\* one click on Next reaches the site: it shows the next page, if there is one
Advance(pos) == Min(pos + 1, Len(site.pages))

\* the Next control is visible
NextVisible == sitePos < Len(site.pages) \/ site.sticky

\* how the site takes a dispatched click: at once, late, or never
ClickOutcomes ==
    {"now"} \cup (IF slowClicks < MaxSlowClicks THEN {"late", "lost"} ELSE {})

Click(outcome) ==
    /\ sitePos' = IF outcome = "now" THEN Advance(sitePos) ELSE sitePos
    /\ pendingClicks' = IF outcome = "late" THEN pendingClicks + 1 ELSE pendingClicks
    /\ slowClicks' = IF outcome = "now" THEN slowClicks ELSE slowClicks + 1
    /\ UNCHANGED site

\* the site renders a click it had held back
SiteRender ==
    /\ pendingClicks > 0
    /\ pendingClicks' = pendingClicks - 1
    /\ sitePos' = Advance(sitePos)
    /\ UNCHANGED <<site, slowClicks>>

----------------------------------------------------------------------------
(* get_links, scraper.py:96-235 *)

\* scraper.py:147 and 195: "limit and len(results) >= limit"
LimitReached(lim, res) == Truthy(lim) /\ Len(res) >= lim[1]

\* scraper.py:151-182: the candidate of one card
CardItem(card) ==
    LET hasUrl == card.href # <<>>
        name == IF hasUrl
                THEN IF name_selector # None THEN card.name
                     ELSE IF link_selector # None THEN card.name
                     ELSE ""
                ELSE IF card_selector = CoveoCard THEN card.name ELSE ""
    IN [Name |-> IF name = "" THEN "Unknown" ELSE name,
        URL |-> IF hasUrl THEN UrlJoin(directory_url, card.href) ELSE <<>>]

\* a faulty variant of AppendUnique: the duplicate test left out
AppendAlways(res, item) ==
    IF item.URL # <<>> THEN Append(res, item) ELSE res

\* scraper.py:188-191
AppendUnique(res, item) ==
    IF item.URL # <<>>
    THEN IF ~ \E i \in 1..Len(res) :
                res[i].Name = item.Name /\ res[i].URL = item.URL
         THEN Append(res, item)
         ELSE res
    ELSE res

\* scraper.py:145-191: the loop over the cards from the i-th on; returned
\* tells that the limit check inside the loop returned from get_links
RECURSIVE HarvestFrom(_, _, _, _)
HarvestFrom(cs, i, res, lim) ==
    IF i > Len(cs)
    THEN [results |-> res, returned |-> FALSE]
    ELSE IF LimitReached(lim, res)
         THEN [results |-> res, returned |-> TRUE]
         ELSE HarvestFrom(cs, i + 1, AppendUnique(res, CardItem(cs[i])), lim)

\* page.query_selector_all(card_selector) on the page shown
QueryCards == site.pages[sitePos]

\* page.query_selector_all('.CoveoResult'), scraper.py:216: the cards of a
\* property directory are no .CoveoResult elements
QueryCoveo == IF card_selector = CoveoCard THEN site.pages[sitePos] ELSE <<>>

\* scraper.py:101-118: results = [], lazy init, the URL cleaned. A failure
\* of start_browser is raised to the caller.
GL_Enter ==
    /\ glPc = "call"
    /\ \E fault \in StartFaults :
          LET s == LazyInit(fault)
          IN /\ SetSession(s)
             /\ glPc' = IF s.raised THEN "raised" ELSE "goto"
    /\ nav' = [op |-> "get_links", lazy |-> page = None, page |-> "-"]
    /\ results' = <<>>
    /\ directory_url' = CleanUrl(directory_url)
    /\ UNCHANGED <<card_selector, link_selector, name_selector, limit,
                   cards, page_num, first_name_before, harvested, siteVars>>

\* scraper.py:120-133 and 232-235: page.goto; a failure (a timeout, or no
\* page object to call it on) is caught and the empty list returned
GL_Goto ==
    /\ glPc = "goto"
    /\ \E ok \in BOOLEAN :
          /\ ok => page = "open"
          /\ glPc' = IF ok THEN "harvest" ELSE "returned"
          /\ page_num' = IF ok THEN 1 ELSE page_num
    /\ nav' = [nav EXCEPT !.page = page]
    /\ UNCHANGED <<results, cards, first_name_before, harvested,
                   glArgs, sessVars, siteVars>>

\* scraper.py:135-197: one harvest pass over the page shown
GL_Harvest ==
    /\ glPc = "harvest"
    /\ card_selector # None
    /\ LET h == HarvestFrom(QueryCards, 1, results, limit)
       IN /\ results' = h.results
          /\ glPc' = IF h.returned \/ LimitReached(limit, h.results)
                     THEN "returned" ELSE "next"
    /\ cards' = QueryCards
    /\ harvested' = Append(harvested, sitePos)
    /\ UNCHANGED <<page_num, first_name_before, glArgs, sessVars, nav, siteVars>>

\* scraper.py:144-191 and 232-235: an exception in the pass (the query with
\* no selector, an element gone stale at the k-th card) is caught by the
\* outer handler, which returns what was collected
GL_HarvestRaises ==
    /\ glPc = "harvest"
    /\ \E k \in 0..Len(QueryCards) :
          LET h == HarvestFrom(SubSeq(QueryCards, 1, k), 1, results, limit)
          IN /\ card_selector = None => k = 0
             /\ ~ h.returned
             /\ results' = h.results
    /\ glPc' = "returned"
    /\ UNCHANGED <<cards, page_num, first_name_before, harvested,
                   glArgs, sessVars, nav, siteVars>>

\* scraper.py:199-211 and 225-230: no visible Next control ends the loop;
\* else the click is dispatched and the first card's text remembered
GL_Next ==
    /\ glPc = "next"
    /\ IF ~ NextVisible
       THEN /\ glPc' = "returned"
            /\ UNCHANGED <<first_name_before, siteVars>>
       ELSE \/ \E o \in ClickOutcomes :
                  /\ Click(o)
                  /\ first_name_before' =
                        IF cards # <<>> THEN cards[1].name ELSE ""
                  /\ glPc' = "verify"
            \/ /\ glPc' = "returned"     \* the click raised
               /\ UNCHANGED <<first_name_before, siteVars>>
    /\ UNCHANGED <<results, cards, page_num, harvested, glArgs, sessVars, nav>>

\* the cap tested one page late: a faulty variant of CapReached
CapReachedLate(n) == n > SafetyCap + 1

\* scraper.py:223: if page_num > 50: break
CapReached(n) == n > SafetyCap

\* scraper.py:212-227: after the wait, an unchanged first card has the click
\* dispatched once more; then the next pass, up to the safety cap
GL_Verify ==
    /\ glPc = "verify"
    /\ \/ /\ IF QueryCoveo # <<>> /\ QueryCoveo[1].name = first_name_before
             THEN \E o \in ClickOutcomes : Click(o)
             ELSE UNCHANGED siteVars
          /\ page_num' = page_num + 1
          /\ glPc' = IF CapReached(page_num + 1) THEN "returned" ELSE "harvest"
       \/ /\ glPc' = "returned"     \* wait_for_load_state or the click raised
          /\ UNCHANGED <<page_num, siteVars>>
    /\ UNCHANGED <<results, cards, first_name_before, harvested,
                   glArgs, sessVars, nav>>

GetLinksStep ==
    \/ GL_Enter
    \/ GL_Goto
    \/ GL_Harvest
    \/ GL_HarvestRaises
    \/ GL_Next
    \/ GL_Verify

\* the site renders while get_links waits
GL_SiteRender ==
    /\ glPc \in {"verify", "harvest", "next"}
    /\ SiteRender
    /\ UNCHANGED <<glArgs, glVars, sessVars, nav>>

----------------------------------------------------------------------------
(* The content store and VectorDB, vector_db.py *)

VARIABLES
    store,      \* the records of the content store: [ns, id, url]
    linkLog     \* the content-store calls and navigations made for the
                \* link being processed, in order

dbVars == <<store, linkLog>>

\* index.query(namespace=None) reads the default namespace
DefaultNs == "__default__"
PersonNs == "seattle_directory"
PropertyNs == "seattle_listings"

\* vector_db.py:163  slugify(name)[:20]
SlugCut == 20

LowerWord(w) ==
    CASE w = "Ann" -> "ann"
      [] w = "Lee" -> "lee"
      [] w = "Bob" -> "bob"
      [] w = "Roe" -> "roe"
      [] w = "Bothell" -> "bothell"
      [] w = "Tech" -> "tech"
      [] w = "Center" -> "center"
      [] w = "North" -> "north"
      [] w = "South" -> "south"
      [] w = "Pier" -> "pier"
      [] OTHER -> w

\* the number of characters of a slug word
WordLen(w) ==
    CASE w \in {"ann", "lee", "bob", "roe"} -> 3
      [] w \in {"tech", "pier"} -> 4
      [] w \in {"north", "south"} -> 5
      [] w = "center" -> 6
      [] w \in {"bothell", "unknown"} -> 7
      [] OTHER -> 2

\* slugify of a text given as its words: "unknown" for the empty text, else
\* the words in lower case, joined by "-"
slugify(words) ==
    IF words = <<>>
    THEN <<"unknown">>
    ELSE [k \in 1..Len(words) |-> LowerWord(words[k])]

\* a URL token with everything but word characters and "-" removed
StripToken(t) ==
    CASE t = Origin -> "httpswwwcbrecom"
      [] t = StagingOrigin -> "httpstest-www1cbrecom"
      [] t = "/people" -> "people"
      [] t = "/ann-lee" -> "ann-lee"
      [] t = "/cy" -> "cy"
      [] t = "/properties" -> "properties"
      [] t = "/details" -> "details"
      [] t = "/p1" -> "p1"
      [] OTHER -> ""

\* slugify of a URL: its characters survive or go, and nothing separates
\* what is left ("glued" marks a slug that is one word)
slugifyUrl(u) == <<"glued">> \o [k \in 1..Len(u) |-> StripToken(u[k])]

\* the first n characters of a slug given as its words: whole words as long
\* as they fit, each but the first preceded by its "-"; a word cut short is
\* marked "cut"
RECURSIVE SlugPrefix(_, _)
SlugPrefix(ws, n) ==
    IF ws = <<>> \/ n <= 0
    THEN <<>>
    ELSE IF WordLen(ws[1]) < n
         THEN IF Len(ws) = 1
              THEN ws
              ELSE IF n - WordLen(ws[1]) = 1
                   THEN <<ws[1], "-">>
                   ELSE <<ws[1]>> \o SlugPrefix(Tail(ws), n - WordLen(ws[1]) - 1)
         ELSE IF WordLen(ws[1]) = n
              THEN <<ws[1]>>
              ELSE <<ws[1], "cut">>

LogExists(ns, url, result, error) ==
    [op |-> "exists", ns |-> ns, url |-> url, id |-> <<>>,
     result |-> result, error |-> error]

LogWrite(ns, url, id, error) ==
    [op |-> "write", ns |-> ns, url |-> url, id |-> id,
     result |-> ~ error, error |-> error]

LogGoto(url, ok) ==
    [op |-> "goto", ns |-> "", url |-> url, id |-> <<>>,
     result |-> ok, error |-> ~ ok]

Stored(st, url, ns) == \E r \in st : r.ns = ns /\ r.url = url

\* exists without its try/except: a faulty variant of Exists
ExistsUncaught(st, url, ns, qerr) ==
    [result |-> ~ qerr /\ Stored(st, url, ns), raised |-> qerr]

\* vector_db.py:70-84: a query by the url metadata in one namespace; a query
\* error is caught and answered False
Exists(st, url, ns, qerr) ==
    [result |-> IF qerr THEN FALSE ELSE Stored(st, url, ns), raised |-> FALSE]

\* index.upsert_records: the record replaces the one of the same id
Write(st, ns, id, url) ==
    { r \in st : ~ (r.ns = ns /\ r.id = id) } \cup {[ns |-> ns, id |-> id, url |-> url]}

\* vector_db.py:101-111: "broker-" + slug of the name, or of the URL when
\* the name is empty
PersonRecordId(d) ==
    LET name == (IF d["First Name"] = "" THEN <<>> ELSE <<d["First Name"]>>)
                \o (IF d["Last Name"] = "" THEN <<>> ELSE <<d["Last Name"]>>)
    IN IF slugify(name) = <<"unknown">>
       THEN <<"broker">> \o slugifyUrl(d["URL"])
       ELSE <<"broker">> \o slugify(name)

\* vector_db.py:155-164: no 'Property ID' is ever set by the scraper
PropertyRecordId(d) ==
    <<"prop">> \o SlugPrefix(slugify(d["Property Name"]), SlugCut)

\* the result of an upsert: the store, the calls made, an exception raised
\* to the caller
Upserted(st, log, raised) == [store |-> st, log |-> log, raised |-> raised]

\* upsert with the duplicate check left out: a faulty variant of Upsert
UpsertUnchecked(st, url, ns, id, qerr, werr) ==
    IF url = <<>>
    THEN Upserted(st, <<>>, FALSE)
    ELSE LET ex == Exists(st, url, ns, qerr)
         IN Upserted(IF werr THEN st ELSE Write(st, ns, id, url),
                     <<LogExists(ns, url, ex.result, qerr),
                       LogWrite(ns, url, id, werr)>>,
                     FALSE)

\* upsert with no handler around the write: a faulty variant of Upsert
UpsertUncaught(st, url, ns, id, qerr, werr) ==
    IF url = <<>>
    THEN Upserted(st, <<>>, FALSE)
    ELSE LET ex == Exists(st, url, ns, qerr)
         IN IF ex.result
            THEN Upserted(st, <<LogExists(ns, url, TRUE, qerr)>>, FALSE)
            ELSE Upserted(IF werr THEN st ELSE Write(st, ns, id, url),
                          <<LogExists(ns, url, FALSE, qerr),
                            LogWrite(ns, url, id, werr)>>,
                          werr)

\* vector_db.py:86-138 and 140-194, the part the two methods share: no URL,
\* no write; the method's own existence check in its namespace; a hit skips
\* the write; an exception of the check or of the write is caught
Upsert(st, url, ns, id, qerr, werr) ==
    IF url = <<>>
    THEN Upserted(st, <<>>, FALSE)
    ELSE LET ex == Exists(st, url, ns, qerr)
         IN IF ex.raised
            THEN Upserted(st, <<LogExists(ns, url, FALSE, TRUE)>>, FALSE)
            ELSE IF ex.result
                 THEN Upserted(st, <<LogExists(ns, url, TRUE, qerr)>>, FALSE)
                 ELSE Upserted(IF werr THEN st ELSE Write(st, ns, id, url),
                               <<LogExists(ns, url, FALSE, qerr),
                                 LogWrite(ns, url, id, werr)>>,
                               FALSE)

\* vector_db.py:86-138
upsert_person(st, d, qerr, werr) ==
    Upsert(st, d["URL"], PersonNs, PersonRecordId(d), qerr, werr)

\* vector_db.py:140-194
upsert_property(st, d, qerr, werr) ==
    Upsert(st, d["URL"], PropertyNs, PropertyRecordId(d), qerr, werr)

----------------------------------------------------------------------------
(* scrape_details and scrape_property, scraper.py:237-643 and 645-977 *)

PersonFields ==
    {"URL", "First Name", "Last Name", "Title", "Email", "Phone",
     "Address Line", "City", "State", "Zip", "Full Address", "Experience",
     "vCardURL", "LinkedProperties", "ListingsURL"}

PropertyFields ==
    {"URL", "Property Name", "Address", "Description", "Brokers", "Brochure URL"}

\* the empty list as a field value
EmptyList == "[]"

\* scraper.py:296
Skipped == "SKIPPED (Unreachable)"

\* scraper.py:241-257
NewPerson(url) ==
    [f \in PersonFields |->
        IF f = "URL" THEN url
        ELSE IF f = "LinkedProperties" THEN EmptyList ELSE ""]

\* scraper.py:649-656
NewProperty(url) ==
    [f \in PropertyFields |->
        CASE f = "URL" -> url
          [] f = "Property Name" -> <<>>
          [] f = "Brokers" -> EmptyList
          [] f = "Brochure URL" -> "Not Found"
          [] OTHER -> ""]

\* scraper.py:259-261: the staging host becomes the production host
NormalizeUrl(u) ==
    [k \in 1..Len(u) |-> IF u[k] = StagingOrigin THEN Origin ELSE u[k]]

\* the unreachable record with one field forgotten: a faulty variant of SkippedPerson
SkippedPersonPartly(d) ==
    [f \in DOMAIN d |->
        IF f \in {"URL", "LinkedProperties"} THEN d[f] ELSE Skipped]

\* scraper.py:292-297
SkippedPerson(d) ==
    [f \in DOMAIN d |-> IF f # "URL" THEN Skipped ELSE d[f]]

\* the hero names a profile page may show (<<>>: no hero element), and the
\* first lines of the headings of a property page
HeroNames == { <<"Ann", "Lee">>, <<"Bob", "Roe">>, <<>> }
PropertyTitles ==
    { <<"Bothell", "Tech", "Center", "North">>,
      <<"Bothell", "Tech", "Center", "South">>, <<>> }

\* scraper.py:300-307: the hero name split on its first space
WithHero(d, hero) ==
    IF hero = <<>>
    THEN d
    ELSE [d EXCEPT !["First Name"] = hero[1],
                   !["Last Name"] = IF Len(hero) > 1 THEN hero[2] ELSE ""]

\* scraper.py:685-696
WithTitle(d, title) ==
    IF title = <<>> THEN d ELSE [d EXCEPT !["Property Name"] = title]

VARIABLES
    vector_db,   \* GenericCrawler.vector_db
    ex_person,   \* the extractor called: scrape_details (TRUE) or scrape_property
    cur_url,     \* its argument
    data,        \* its record
    exPc,        \* position in the extractor
    exError      \* what it raised: "", "session" or "store"

exVars == <<ex_person, cur_url, data, exPc, exError>>

\* scrape_details up to its upsert (scraper.py:241-637), or scrape_property
\* up to its upsert (scraper.py:649-971): the record is made, the browser
\* started if there is no page, the page visited. A failure of start_browser
\* is raised to the caller. An unreachable profile returns the sentinel
\* record at once; an unreachable property falls through to the upsert.
EX_Visit ==
    /\ exPc = "call"
    /\ \E fault \in StartFaults, reached \in BOOLEAN :
          LET s == LazyInit(fault)
              url == IF ex_person THEN NormalizeUrl(cur_url) ELSE cur_url
          IN /\ SetSession(s)
             /\ reached => s.page = "open"
             /\ IF s.raised
                THEN /\ exPc' = "raised"
                     /\ exError' = "session"
                     /\ data' = IF ex_person THEN NewPerson(url) ELSE NewProperty(url)
                     /\ UNCHANGED <<linkLog, nav>>
                ELSE /\ linkLog' = Append(linkLog, LogGoto(url, reached))
                     /\ nav' = [op |-> IF ex_person THEN "scrape_details"
                                       ELSE "scrape_property",
                                lazy |-> page = None, page |-> s.page]
                     /\ UNCHANGED exError
                     /\ IF ex_person
                        THEN IF reached
                             THEN /\ \E hero \in HeroNames :
                                        data' = WithHero(NewPerson(url), hero)
                                  /\ exPc' = "persist"
                             ELSE /\ data' = SkippedPerson(NewPerson(url))
                                  /\ exPc' = "returned"
                        ELSE /\ IF reached
                                THEN \E title \in PropertyTitles :
                                        data' = WithTitle(NewProperty(url), title)
                                ELSE data' = NewProperty(url)
                             /\ exPc' = "persist"
    /\ UNCHANGED <<vector_db, ex_person, cur_url, store>>

\* scraper.py:639-643 and 973-977: the record goes to the content store,
\* unless the crawler has none; then the record is returned
EX_Persist ==
    /\ exPc = "persist"
    /\ IF vector_db = None
       THEN /\ exPc' = "returned"
            /\ UNCHANGED <<store, linkLog, exError>>
       ELSE \E qerr \in BOOLEAN, werr \in BOOLEAN :
               LET up == IF ex_person
                         THEN upsert_person(store, data, qerr, werr)
                         ELSE upsert_property(store, data, qerr, werr)
               IN /\ store' = up.store
                  /\ linkLog' = linkLog \o up.log
                  /\ exPc' = IF up.raised THEN "raised" ELSE "returned"
                  /\ exError' = IF up.raised THEN "store" ELSE exError
    /\ UNCHANGED <<vector_db, ex_person, cur_url, data, nav, sessVars>>

ExtractStep ==
    \/ EX_Visit
    \/ EX_Persist

----------------------------------------------------------------------------
(* The pipeline driver: main, run_pipeline.py:55-263 *)

VARIABLES
    args_url, mode, args_limit, dry_run,   \* the command line
    pinecone_key, openai_key,              \* the environment has the keys
    vdb,             \* main's own VectorDB
    runPc,           \* position in main
    branch,          \* the branch of main the mode and the URL select
    main_results,    \* main's results
    i,               \* the index of the link being processed
    teardown,        \* close_browser was entered
    pipelineError,   \* what main's handler caught: "", "session" or "store"
    exitError        \* an exception left main

argVars == <<args_url, mode, args_limit, dry_run, pinecone_key, openai_key>>
cfgVars == <<vdb, branch>>
runVars == <<runPc, main_results, i, teardown, pipelineError, exitError>>

\* "/seg/" in url
HasSegment(u, seg) ==
    \E k \in 1..(Len(u) - 1) :
        u[k] = seg /\ u[k + 1] \in {"/", "/people", "/ann-lee", "/cy",
                                    "/properties", "/details", "/p1",
                                    "/listings", "/properties-for-lease"}

\* tok in url, for a one-character tok
HasToken(u, tok) == \E k \in 1..Len(u) : u[k] = tok

\* url.endswith("/people")
EndsWithPeople(u) == u # <<>> /\ u[Len(u)] = "/people"

\* url.rstrip('/').endswith("/people")
RStripSlash(u) ==
    IF u # <<>> /\ u[Len(u)] = "/" THEN SubSeq(u, 1, Len(u) - 1) ELSE u

\* run_pipeline.py:86-102
IsPerson(m, u) ==
    \/ m = "person"
    \/ m = "auto" /\ HasSegment(u, "/people") /\ ~ EndsWithPeople(u)

IsProperty(m, u) ==
    \/ m = "property"
    \/ /\ m = "auto"
       /\ ~ (HasSegment(u, "/people") /\ ~ EndsWithPeople(u))
       /\ \/ HasSegment(u, "/details")
          \/ HasSegment(u, "/properties")
          \/ HasSegment(u, "/listings")

\* run_pipeline.py:107-113
IsDirectoryUrl(u) ==
    /\ ~ HasSegment(u, "/details")
    /\ \/ HasToken(u, "#")
       \/ HasToken(u, "?")
       \/ EndsWithPeople(RStripSlash(u))

\* run_pipeline.py:165-171
IsPropDirectory(u) ==
    /\ ~ HasSegment(u, "/details")
    /\ \/ HasToken(u, "/properties-for-lease")
       \/ HasToken(u, "/properties-for-sale")
       \/ HasToken(u, "?")

\* run_pipeline.py:104-226: the branch taken
Branch(m, u) ==
    IF IsPerson(m, u)
    THEN IF IsDirectoryUrl(u) THEN "person_dir" ELSE "person_single"
    ELSE IF IsProperty(m, u)
         THEN IF IsPropDirectory(u) THEN "property_dir" ELSE "property_single"
         ELSE "directory"

IsDirBranch(b) == b \in {"person_dir", "property_dir", "directory"}

\* run_pipeline.py:247: res.get('url'); the candidates of get_links have the
\* keys 'Name' and 'URL'
AutoLink(res) == IF "url" \in DOMAIN res THEN res["url"] ELSE <<>>

\* run_pipeline.py:131, 195, 247
LinkOf(b, res) == IF b = "directory" THEN AutoLink(res) ELSE res.URL

\* run_pipeline.py:251: "people" in link
ChildIsPerson(link) ==
    \E k \in 1..Len(link) : link[k] \in {"/people", "/people-directory"}

\* the extractor a branch runs on a link
ExtractsPerson(b, link) ==
    \/ b \in {"person_dir", "person_single"}
    \/ b = "directory" /\ ChildIsPerson(link)

\* the extractor call of the branch sits in a try of its own
\* (run_pipeline.py:141-150 and 205-214)
GuardedCall(b) == b \in {"person_dir", "property_dir"}

\* run_pipeline.py:125-126, 190-191, 233-235
Truncated(res, lim) ==
    IF Truthy(lim) /\ Len(res) > lim[1] THEN SubSeq(res, 1, lim[1]) ELSE res

Running == runPc \notin {"done", "crashed", "killed"}

\* the crawler built though vectors are disabled: a faulty variant of
\* CrawlerVectorDb
CrawlerVectorDbAlways(disable_vectors) == "VectorDB"

\* scraper.py:21-25: the crawler's own VectorDB, unless vectors are disabled
CrawlerVectorDb(disable_vectors) ==
    IF disable_vectors THEN None ELSE "VectorDB"

\* run_pipeline.py:71-82 and 86-113: the crawler and the VectorDB objects are
\* made (VectorDB() raises without PINECONE_API_KEY or without a connection,
\* outside any try), and the branch is chosen
M_Start ==
    /\ runPc = "start"
    /\ \E connected \in BOOLEAN :
          IF ~ dry_run /\ ~ (pinecone_key /\ connected)
          THEN /\ runPc' = "crashed"
               /\ exitError' = TRUE
               /\ UNCHANGED <<vector_db, cfgVars, glArgs, glPc>>
          ELSE LET b == Branch(mode, args_url)
               IN /\ vector_db' = CrawlerVectorDb(dry_run)
                  /\ vdb' = IF ~ dry_run /\ pinecone_key /\ openai_key
                            THEN "VectorDB" ELSE None
                  /\ branch' = b
                  /\ runPc' = IF IsDirBranch(b) THEN "enumerate" ELSE "single"
                  /\ glPc' = IF IsDirBranch(b) THEN "call" ELSE glPc
                  /\ directory_url' = args_url
                  /\ card_selector' = CASE b = "property_dir" -> PropCard
                                        [] b = "directory" -> None
                                        [] OTHER -> CoveoCard
                  /\ link_selector' = IF b = "property_dir" THEN None
                                      ELSE TitleLink
                  /\ name_selector' = IF b = "property_dir" THEN PropHeading
                                      ELSE None
                  /\ limit' = IF b = "directory" THEN NoLimit ELSE args_limit
                  /\ UNCHANGED exitError
    /\ UNCHANGED <<main_results, i, teardown, pipelineError, argVars,
                   results, cards, page_num, first_name_before, harvested,
                   sessVars, nav, siteVars, dbVars, exVars>>

\* get_links runs inside main (run_pipeline.py:120, 181, 230), and the site
\* renders while it waits
M_GetLinks ==
    /\ runPc = "enumerate"
    /\ GetLinksStep \/ GL_SiteRender
    /\ UNCHANGED <<argVars, cfgVars, runVars, dbVars, exVars, vector_db>>

\* run_pipeline.py:120-130: get_links has returned; the list is cut to the
\* limit. An exception of get_links goes to main's handler. The browser
\* leaves the directory, and the locals of get_links are gone.
M_Enumerated ==
    /\ runPc = "enumerate"
    /\ glPc \in {"returned", "raised"}
    /\ IF glPc = "raised"
       THEN /\ runPc' = "finally"
            /\ pipelineError' = "session"
            /\ UNCHANGED <<main_results, i>>
       ELSE /\ main_results' = Truncated(results, args_limit)
            /\ i' = 1
            /\ runPc' = "loop"
            /\ UNCHANGED pipelineError
    /\ glPc' = "idle"
    /\ results' = <<>>
    /\ cards' = <<>>
    /\ page_num' = 0
    /\ first_name_before' = ""
    /\ harvested' = <<>>
    /\ sitePos' = 1
    /\ pendingClicks' = 0
    /\ slowClicks' = 0
    /\ UNCHANGED <<site, teardown, exitError, argVars, cfgVars, glArgs,
                   sessVars, nav, dbVars, exVars, vector_db>>

\* no check before the scrape: a faulty variant of PreScrapeCheck
NoPreScrapeCheck(b, v) == FALSE

\* run_pipeline.py:137 and 201: "if vdb and vdb.exists(...)" in the loops of
\* the person and property branches; the loop of the auto branch has none
PreScrapeCheck(b, v) == b # "directory" /\ v # None

\* run_pipeline.py:130-139, 194-203, 246-248: the next link; in the person
\* and property branches the pre-scrape duplicate check, vdb.exists(url)
\* with no namespace given; then the extractor is called
M_Loop ==
    /\ runPc = "loop"
    /\ IF i > Len(main_results)
       THEN /\ runPc' = "finally"
            /\ UNCHANGED <<i, pipelineError, cur_url, ex_person, exPc, linkLog>>
       ELSE LET link == LinkOf(branch, main_results[i])
                call == /\ runPc' = "extract"
                        /\ cur_url' = link
                        /\ ex_person' = ExtractsPerson(branch, link)
                        /\ exPc' = "call"
                        /\ UNCHANGED <<i, pipelineError>>
                skip == /\ i' = i + 1
                        /\ UNCHANGED <<runPc, pipelineError, cur_url,
                                       ex_person, exPc>>
            IN IF link = <<>>
               THEN skip /\ linkLog' = <<>>
               ELSE IF PreScrapeCheck(branch, vdb)
                    THEN \E qerr \in BOOLEAN :
                            LET ex == Exists(store, link, DefaultNs, qerr)
                            IN /\ linkLog' =
                                     <<LogExists(DefaultNs, link, ex.result,
                                                 qerr)>>
                               /\ IF ex.raised
                                  THEN /\ runPc' = "finally"
                                       /\ pipelineError' = "store"
                                       /\ UNCHANGED <<i, cur_url, ex_person,
                                                      exPc>>
                                  ELSE IF ex.result THEN skip ELSE call
                    ELSE call /\ linkLog' = <<>>
    /\ UNCHANGED <<main_results, teardown, exitError, store, data, exError,
                   vector_db, argVars, cfgVars, glArgs, glVars, sessVars,
                   nav, siteVars>>

\* run_pipeline.py:156-160 and 219-224: a single profile or property
M_Single ==
    /\ runPc = "single"
    /\ runPc' = "extract"
    /\ cur_url' = args_url
    /\ ex_person' = ExtractsPerson(branch, args_url)
    /\ exPc' = "call"
    /\ linkLog' = <<>>
    /\ UNCHANGED <<main_results, i, teardown, pipelineError, exitError,
                   store, data, exError, vector_db, argVars, cfgVars, glArgs,
                   glVars, sessVars, nav, siteVars>>

\* where main goes on after the item
AfterItem(b) == IF IsDirBranch(b) THEN "loop" ELSE "finally"

\* run_pipeline.py:141-150, 158, 205-214, 221, 251-254: the extractor runs
\* inside main
M_Extract ==
    /\ runPc = "extract"
    /\ ExtractStep
    /\ UNCHANGED <<argVars, cfgVars, runVars, glArgs, glVars, siteVars>>

\* the extractor has returned or raised: an exception is caught by the try
\* around the call, where there is one, else by main's handler
M_Extracted ==
    /\ runPc = "extract"
    /\ exPc \in {"returned", "raised"}
    /\ IF exPc = "raised" /\ ~ GuardedCall(branch)
       THEN /\ runPc' = "finally"
            /\ pipelineError' = exError
            /\ UNCHANGED i
       ELSE /\ runPc' = AfterItem(branch)
            /\ i' = i + 1
            /\ UNCHANGED pipelineError
    /\ exPc' = "idle"
    /\ UNCHANGED <<main_results, teardown, exitError, ex_person, cur_url,
                   data, exError, vector_db, argVars, cfgVars, glArgs, glVars,
                   sessVars, nav, siteVars, dbVars>>

\* run_pipeline.py:259-263: the finally clause, crawler.close_browser(); an
\* exception of a close leaves main
M_Finally ==
    /\ runPc = "finally"
    /\ \E fault \in CloseFaults :
          LET s == CloseBrowser(fault)
          IN /\ SetSession(s)
             /\ exitError' = s.raised
    /\ teardown' = TRUE
    /\ runPc' = "done"
    /\ UNCHANGED <<main_results, i, pipelineError, vector_db, argVars,
                   cfgVars, glArgs, glVars, nav, siteVars, dbVars, exVars>>

\* backend/main.py:184-196, stop_scrape: scraper_process.terminate() sends
\* SIGTERM to the pipeline process. run_pipeline.py installs no handler for
\* it, so the process ends at once: no except or finally clause runs.
StopScrape ==
    /\ Running
    /\ runPc' = "killed"
    /\ UNCHANGED <<main_results, i, teardown, pipelineError, exitError,
                   vector_db, argVars, cfgVars, glArgs, glVars, sessVars, nav,
                   siteVars, dbVars, exVars>>

----------------------------------------------------------------------------
(* The run controller (cbre_ui/backend/main.py): start and stop requests   *)
(* and the background tasks that launch the pipeline as a subprocess. The  *)
(* handlers and the tasks are coroutines of one event loop: a step below   *)
(* is the code between two awaits.                                          *)

VARIABLES
    scraper_process,  \* the global handle: 0 for None, else the task whose
                      \* subprocess it refers to
    task,             \* per background task: where run_scraper_subprocess is
    proc,             \* per background task: the state of its subprocess
    stopPc,           \* where stop_scrape is: "idle" or "waiting"
    reply             \* the last response sent: the request, the result and
                      \* the number of subprocesses running when it was handled

ctlVars == <<scraper_process, task, proc, stopPc, reply>>

Tasks == 1..MaxTasks

NoReply == [req |-> "none", result |-> "none", running |-> 0]

RunningProcs == {t \in Tasks : proc[t] = "running"}

\* main.py:172 and 187: scraper_process and scraper_process.returncode is None
HandleLive ==
    scraper_process # 0 /\ proc[scraper_process] = "running"

CtlInit ==
    /\ scraper_process = 0
    /\ task = [t \in Tasks |-> "none"]
    /\ proc = [t \in Tasks |-> "none"]
    /\ stopPc = "idle"
    /\ reply = NoReply

\* main.py:170-176: the request is refused when the handle refers to a live
\* subprocess; otherwise the launch is queued as a background task
start_scrape_internal ==
    /\ IF HandleLive
       THEN /\ reply' = [req |-> "start", result |-> "already_running",
                         running |-> Cardinality(RunningProcs)]
            /\ UNCHANGED task
       ELSE /\ \E t \in Tasks :
                  /\ task[t] = "none"
                  /\ \A u \in Tasks : u < t => task[u] # "none"
                  /\ task' = [task EXCEPT ![t] = "queued"]
            /\ reply' = [req |-> "start", result |-> "started",
                         running |-> Cardinality(RunningProcs)]
    /\ UNCHANGED <<scraper_process, proc, stopPc>>

\* main.py:88-118: the task starts, builds the command and awaits
\* broadcast_log
T_Begin(t) ==
    /\ task[t] = "queued"
    /\ task' = [task EXCEPT ![t] = "logging"]
    /\ UNCHANGED <<scraper_process, proc, stopPc, reply>>

\* main.py:120-126: create_subprocess_exec either raises or creates the
\* subprocess; the coroutine is suspended until the call returns
T_Spawn(t) ==
    /\ task[t] = "logging"
    /\ \E ok \in BOOLEAN :
          IF ok
          THEN /\ task' = [task EXCEPT ![t] = "spawned"]
               /\ proc' = [proc EXCEPT ![t] = "running"]
          ELSE /\ task' = [task EXCEPT ![t] = "finishing"]
               /\ UNCHANGED proc
    /\ UNCHANGED <<scraper_process, stopPc, reply>>

\* main.py:128: scraper_process = process
T_Assign(t) ==
    /\ task[t] = "spawned"
    /\ scraper_process' = t
    /\ task' = [task EXCEPT ![t] = "streaming"]
    /\ UNCHANGED <<proc, stopPc, reply>>

\* the subprocess ends by itself
P_Exit(t) ==
    /\ proc[t] = "running"
    /\ proc' = [proc EXCEPT ![t] = "exited"]
    /\ UNCHANGED <<scraper_process, task, stopPc, reply>>

\* main.py:130-147: the output is at its end, the exit code is awaited and
\* broadcast
T_Stream(t) ==
    /\ task[t] = "streaming"
    /\ proc[t] = "exited"
    /\ task' = [task EXCEPT ![t] = "finishing"]
    /\ UNCHANGED <<scraper_process, proc, stopPc, reply>>

\* main.py:149-152: after the broadcast of the exit code or of the error,
\* finally: scraper_process = None
T_Finally(t) ==
    /\ task[t] = "finishing"
    /\ scraper_process' = 0
    /\ task' = [task EXCEPT ![t] = "done"]
    /\ UNCHANGED <<proc, stopPc, reply>>

\* main.py:184-190 and 196: with no live handle the answer is "not_running";
\* otherwise the subprocess is terminated and its end awaited
stop_scrape ==
    /\ stopPc = "idle"
    /\ IF HandleLive
       THEN /\ proc' = [proc EXCEPT ![scraper_process] = "exited"]
            /\ stopPc' = "waiting"
            /\ UNCHANGED reply
       ELSE /\ reply' = [req |-> "stop", result |-> "not_running",
                         running |-> Cardinality(RunningProcs)]
            /\ UNCHANGED <<proc, stopPc>>
    /\ UNCHANGED <<scraper_process, task>>

\* main.py:193-195: scraper_process = None, and the answer "stopped"
stop_scrape_done ==
    /\ stopPc = "waiting"
    /\ scraper_process' = 0
    /\ stopPc' = "idle"
    /\ reply' = [req |-> "stop", result |-> "stopped",
                 running |-> Cardinality(RunningProcs)]
    /\ UNCHANGED <<task, proc>>

----------------------------------------------------------------------------
(* format_phone (scraper.py:33-65). A string is a sequence of characters,  *)
(* a character a string of length one; an optional string is <<>> for None *)
(* and <<s>> for the string s.                                              *)

VARIABLES
    phone_str,    \* the argument of format_phone
    phone_once,   \* format_phone(phone_str)
    phone_twice,  \* format_phone(format_phone(phone_str))
    phonePc       \* "idle", "call", "once", "twice"

phoneVars == <<phone_str, phone_once, phone_twice, phonePc>>

NoString == <<>>

DigitChars == {"0", "1", "2", "3", "4", "5", "6", "7", "8", "9"}

\* one character outside ASCII (an emoji)
NonAscii == "U+260E"

NotFound == <<"N", "o", "t", " ", "F", "o", "u", "n", "d">>

StartsWith(s, prefix) ==
    Len(s) >= Len(prefix) /\ SubSeq(s, 1, Len(prefix)) = prefix

IsAscii(c) == c # NonAscii

IsDigitOrPlus(c) == c \in DigitChars \/ c = "+"

\* scraper.py:39-41: re.sub(r'[^\x00-\x7F]+', '', s), then
\* re.sub(r'[^\d+]', '', cleaned)
StripPhone(s) == SelectSeq(SelectSeq(s, IsAscii), IsDigitOrPlus)

\* format_phone with no test for a leading "+": a faulty variant of
\* HasPlusPrefix
NeverPlusPrefix(digits) == FALSE

\* scraper.py:48: digits.startswith('+')
HasPlusPrefix(digits) == StartsWith(digits, <<"+">>)

\* no correction of the area code: a faulty variant of FixAreaCode
KeepAreaCode(digits) == digits

\* scraper.py:53-56: "426" is replaced by "425", "1426" by "1425"
FixAreaCode(digits) ==
    IF StartsWith(digits, <<"4", "2", "6">>)
    THEN <<"4", "2", "5">> \o SubSeq(digits, 4, Len(digits))
    ELSE IF StartsWith(digits, <<"1", "4", "2", "6">>)
         THEN <<"1", "4", "2", "5">> \o SubSeq(digits, 5, Len(digits))
         ELSE digits

\* "+" put before every string: a faulty variant of LengthPrefix
PlusPrefix(digits) == <<"+">> \o digits

\* scraper.py:58-65: ten characters get "+1", all other lengths "+"
LengthPrefix(digits) ==
    IF Len(digits) = 10
    THEN <<"+", "1">> \o digits
    ELSE IF Len(digits) = 11 /\ StartsWith(digits, <<"1">>)
         THEN <<"+">> \o digits
         ELSE IF Len(digits) > 10
              THEN <<"+">> \o digits
              ELSE <<"+">> \o digits

\* scraper.py:33-65
format_phone(opt) ==
    IF opt = NoString \/ opt[1] = <<>> \/ opt[1] = NotFound
    THEN NoString
    ELSE LET digits == StripPhone(opt[1])
         IN IF digits = <<>>
            THEN NoString
            ELSE IF HasPlusPrefix(digits)
                 THEN <<digits>>
                 ELSE <<LengthPrefix(FixAreaCode(digits))>>

PhoneIdle ==
    /\ phone_str = NoString
    /\ phone_once = NoString
    /\ phone_twice = NoString
    /\ phonePc = "idle"

\* what may stand before the area code
PhoneLeads ==
    { <<>>, <<"+">>, <<"1">>, <<"+", "1">>, <<"t", "e", "l", ":">>,
      <<NonAscii, " ">>, <<"(">> }

PhoneAreas ==
    { <<>>, <<"4", "2", "6">>, <<"4", "2", "5">>, <<"2", "0", "6">> }

PhoneSeparators == { <<>>, <<"-">>, <<")", " ">>, <<"+">> }

DigitAt(k) == <<"0", "1", "2", "3", "4", "5", "6", "7", "8", "9">>[(k % 10) + 1]

\* the subscriber number of n digits
Subscriber(n) == [k \in 1..n |-> DigitAt(k)]

PhoneInputs ==
    {NoString, << <<>> >>, <<NotFound>>, << <<NonAscii, "-">> >>}
    \cup { << lead \o area \o sep \o Subscriber(n) >> :
             lead \in PhoneLeads, area \in PhoneAreas,
             sep \in PhoneSeparators, n \in 0..MaxSubscriber }

\* the first call
FP_Call ==
    /\ phonePc = "call"
    /\ phone_once' = format_phone(phone_str)
    /\ phonePc' = "once"
    /\ UNCHANGED <<phone_str, phone_twice>>

\* the result is formatted again
FP_Again ==
    /\ phonePc = "once"
    /\ phone_twice' = format_phone(phone_once)
    /\ phonePc' = "twice"
    /\ UNCHANGED <<phone_str, phone_once>>

----------------------------------------------------------------------------
(* Significant transactions of a profile (scraper.py:555-629). A text is a *)
(* sequence of lines; a line is a record: the heading "Significant         *)
(* Transactions", the heading "Clients Represented", a blank line, or the  *)
(* k-th line of content.                                                    *)

VARIABLES
    tx_page,   \* the profile page: the element that holds the heading, and
               \* the lines of the card under it
    tx_out,    \* data['LinkedProperties']
    txPc       \* "idle", "call", "done"

txVars == <<tx_page, tx_out, txPc>>

StartMarker == [t |-> "start", k |-> 0]
EndMarker == [t |-> "end", k |-> 0]
BlankLine == [t |-> "blank", k |-> 0]
ContentLine(k) == [t |-> "text", k |-> k]

\* "none": the page has no such heading; "h3": the heading is an h3 or h4;
\* "title": the heading is a div.cbre-c-inlineBodyCard__title
HeaderKinds == {"none", "h3", "title"}

\* the text with one more line after its first `pos` lines (at its end when
\* it is shorter); no line more for pos < 0
InsertLine(text, pos, line) ==
    IF pos < 0 THEN text
    ELSE LET at == Min(pos, Len(text))
         IN SubSeq(text, 1, at) \o <<line>> \o SubSeq(text, at + 1, Len(text))

\* the cards: n lines of content, with or without a blank line and a
\* "Clients Represented" heading somewhere among them
TxBodies ==
    { InsertLine(InsertLine([k \in 1..n |-> ContentLine(k)], e, EndMarker),
                 b, BlankLine) :
        n \in 0..MaxTxLines, e \in -1..MaxTxLines, b \in -1..MaxTxLines }

TxPages == [header : HeaderKinds, body : TxBodies]

IsNotBlank(l) == l.t # "blank"

\* String.trim() on a text: the blank lines at its two ends are dropped
Trim(text) ==
    LET full == {k \in 1..Len(text) : IsNotBlank(text[k])}
    IN IF full = {} THEN <<>>
       ELSE SubSeq(text, CHOOSE k \in full : \A j \in full : k <= j,
                         CHOOSE k \in full : \A j \in full : k >= j)

\* scraper.py:556-575: transHeader is found among h3, h4 and
\* div.cbre-c-inlineBodyCard__title; of the clone of its card the elements
\* .cbre-c-inlineBodyCard__title are removed; the text, if not empty after
\* trim(), is the one element of res.transactions
CapturedTransactions(pg) ==
    IF pg.header = "none"
    THEN <<>>
    ELSE LET text == IF pg.header = "h3" THEN <<StartMarker>> \o pg.body
                     ELSE pg.body
         IN IF Trim(text) = <<>> THEN <<>> ELSE <<Trim(text)>>

\* str.find: the first position from `from` on where the line is, 0 if none
FindLine(text, line, from) ==
    IF \E k \in from..Len(text) : text[k] = line
    THEN CHOOSE k \in from..Len(text) :
            /\ text[k] = line
            /\ \A j \in from..(k - 1) : text[j] # line
    ELSE 0

\* scraper.py:611-619: every four lines one {Name, Location, Type, Size}
Groups(lines) ==
    [g \in 1..(Len(lines) \div 4) |->
        [kind |-> "tuple",
         Name |-> lines[4 * g - 3], Location |-> lines[4 * g - 2],
         Type |-> lines[4 * g - 1], Size |-> lines[4 * g]]]

\* an unstructured entry is a string: a text of one line or of more
LineEntries(lines) ==
    [k \in 1..Len(lines) |-> [kind |-> "text", text |-> <<lines[k]>>]]

\* scraper.py:622-626: the captured texts themselves
TextEntries(raw_tx) ==
    [k \in 1..Len(raw_tx) |-> [kind |-> "text", text |-> raw_tx[k]]]

\* scraper.py:584-626
ParseTransactions(raw_tx) ==
    IF raw_tx = <<>>
    THEN <<>>
    ELSE LET blob == raw_tx[1]
             start == FindLine(blob, StartMarker, 1)
         IN IF start = 0
            THEN TextEntries(raw_tx)
            ELSE LET end_idx == FindLine(blob, EndMarker, start + 1)
                     chunk == IF end_idx = 0
                              THEN SubSeq(blob, start + 1, Len(blob))
                              ELSE SubSeq(blob, start + 1, end_idx - 1)
                     lines == SelectSeq(chunk, IsNotBlank)
                 IN IF Len(lines) > 0 /\ Len(lines) % 4 = 0
                    THEN Groups(lines)
                    ELSE LineEntries(lines)

TxIdle ==
    /\ tx_page = [header |-> "none", body |-> <<>>]
    /\ tx_out = <<>>
    /\ txPc = "idle"

\* scraper.py:581-628: the page is evaluated and the list is stored
TX_Extract ==
    /\ txPc = "call"
    /\ tx_out' = ParseTransactions(CapturedTransactions(tx_page))
    /\ txPc' = "done"
    /\ UNCHANGED tx_page

----------------------------------------------------------------------------
(* Brochure discovery of scrape_property (scraper.py:744-816). URLs are    *)
(* sequences of tokens as above; "?" starts the query and "#" the fragment. *)

VARIABLES
    property_url,   \* the argument of scrape_property
    candidates,     \* what the search script finds on the page
    b_link,         \* find_brochure() on the page: <<>> for None, else <<url>>
    b_link_modal,   \* find_brochure() after the modal has appeared
    brochure_url,   \* data['Brochure URL']: <<>> for 'Not Found', else <<url>>
    brPc            \* "idle", "call", "main", "done"

brVars == <<property_url, candidates, b_link, b_link_modal, brochure_url, brPc>>

PropertyPage == <<"/properties", "/details", "/p1">>

PropertyUrls ==
    { <<Origin>> \o PropertyPage,
      <<Origin>> \o PropertyPage \o <<"/">>,
      <<Origin>> \o PropertyPage \o <<"?", "q=x">>,
      <<StagingOrigin>> \o PropertyPage }

\* what the elements labelled "brochure" may link to
BrochureCandidates ==
    { <<>>,
      <<"#", "brochure">>,
      <<"javascript:", "void(0)">>,
      PropertyPage \o <<"?", "asset=brochure">>,
      <<Origin>> \o PropertyPage \o <<"/">>,
      <<Origin>> \o PropertyPage \o <<"#", "brochure">>,
      <<Origin, "/fileassets", "/p1.pdf">>,
      <<"/resources", "/flyer.pdf", "?", "v=2">>,
      <<Origin, "/contact">> }

CandidateLists ==
    UNION { [1..n -> BrochureCandidates] : n \in 0..MaxCandidates }

\* the tokens that begin with "/"
SlashTokens ==
    {"/", "/properties", "/details", "/p1", "/fileassets", "/p1.pdf",
     "/resources", "/flyer.pdf", "/contact"}

\* the tokens in which '.pdf', '.doc', '.zip', 'fileassets', 'resources' or
\* 'brochure' occurs
FileTokens ==
    {"/fileassets", "/p1.pdf", "/resources", "/flyer.pdf", "asset=brochure",
     "brochure"}

\* u.split('?')[0]
BeforeQuery(u) ==
    IF \E k \in 1..Len(u) : u[k] = "?"
    THEN SubSeq(u, 1, (CHOOSE k \in 1..Len(u) :
                          u[k] = "?" /\ \A j \in 1..(k - 1) : u[j] # "?") - 1)
    ELSE u

\* scraper.py:776: not b_url or b_url.startswith('#') or 'javascript:' in b_url
SkippedCandidate(u) ==
    \/ u = <<>>
    \/ u[1] = "#"
    \/ \E k \in 1..Len(u) : u[k] = "javascript:"

\* scraper.py:777: a URL that starts with "/" is put on https://www.cbre.com
Absolute(u) == IF u[1] \in SlashTokens THEN <<Origin>> \o u ELSE u

\* scraper.py:780
IsLikelyFile(u) == \E k \in 1..Len(u) : u[k] \in FileTokens

\* scraper.py:774-782: check_url != current_path and is_likely_file
AcceptedCandidate(u, url) ==
    /\ RStripSlash(BeforeQuery(Absolute(u))) # RStripSlash(BeforeQuery(url))
    /\ IsLikelyFile(Absolute(u))

\* scraper.py:745-784: the first candidate that is not skipped and is
\* accepted, or None
RECURSIVE FindFrom(_, _, _)
FindFrom(cs, k, url) ==
    IF k > Len(cs)
    THEN <<>>
    ELSE IF ~ SkippedCandidate(cs[k]) /\ AcceptedCandidate(cs[k], url)
         THEN <<Absolute(cs[k])>>
         ELSE FindFrom(cs, k + 1, url)

find_brochure(cs, url) == FindFrom(cs, 1, url)

BrIdle ==
    /\ property_url = <<>>
    /\ candidates = <<>>
    /\ b_link = <<>>
    /\ b_link_modal = <<>>
    /\ brochure_url = <<>>
    /\ brPc = "idle"

\* scraper.py:786-790
BR_Main ==
    /\ brPc = "call"
    /\ b_link' = find_brochure(candidates, property_url)
    /\ brochure_url' = find_brochure(candidates, property_url)
    /\ brPc' = "main"
    /\ UNCHANGED <<property_url, candidates, b_link_modal>>

\* scraper.py:812-813
AfterModal(current, found) ==
    IF found # <<>> /\ current = <<>> THEN found ELSE current

\* scraper.py:792-816: the modal appears or not; when it does, the search is
\* run again on what the page then shows
BR_Modal ==
    /\ brPc = "main"
    /\ \E appeared \in BOOLEAN, cs \in CandidateLists :
          IF appeared
          THEN /\ candidates' = cs
               /\ b_link_modal' = find_brochure(cs, property_url)
               /\ brochure_url' = AfterModal(brochure_url,
                                             find_brochure(cs, property_url))
          ELSE /\ cs = <<>>
               /\ UNCHANGED <<candidates, b_link_modal, brochure_url>>
    /\ brPc' = "done"
    /\ UNCHANGED <<property_url, b_link>>

-----------------------------------------------------------------------------
(* The phones of a profile (scraper.py:357-379): the contact block of      *)
(* scrape_details formats each number found on the page, keeps the list    *)
(* of the distinct ones and joins it into the legacy Phone field. The      *)
(* labels of the numbers decide other fields only and are left out.        *)

VARIABLES
    phone_data,     \* contact_val['phone_data']: the numbers found on the page
    contact_case,   \* how the visit goes: "unreachable", "failed", "read"
    phone_numbers,  \* data['phone_numbers']: <<>> when the key is not set,
                    \* else <<the list>>
    Phone,          \* data['Phone']
    ctPc            \* "idle", "call" or "done"

ctVars == <<phone_data, contact_case, phone_numbers, Phone, ctPc>>

\* the separator of the legacy field, scraper.py:379
PhoneJoiner == <<" | ">>

\* " | ".join(list)
RECURSIVE JoinPhones(_)
JoinPhones(list) ==
    IF list = <<>>
    THEN <<>>
    ELSE IF Len(list) = 1
         THEN list[1]
         ELSE list[1] \o PhoneJoiner \o JoinPhones(Tail(list))

\* every number appended: a faulty variant of AppendNew
AppendAny(list, n) == Append(list, n)

\* scraper.py:370-371
AppendNew(list, n) ==
    IF \E k \in 1..Len(list) : list[k] = n THEN list ELSE Append(list, n)

\* scraper.py:365-371: the loop over the numbers found
RECURSIVE CollectPhones(_, _)
CollectPhones(items, list) ==
    IF items = <<>>
    THEN list
    ELSE LET clean_num == format_phone(<<items[1]>>)
         IN CollectPhones(Tail(items),
                          IF clean_num = NoString
                          THEN list
                          ELSE AppendNew(list, clean_num[1]))

\* scraper.py:379
LegacyPhone(list) == IF list = <<>> THEN NotFound ELSE JoinPhones(list)

\* the sentinel as the text of a field
SkippedText == <<Skipped>>

ContactCases == {"unreachable", "failed", "read"}

\* the numbers a page may carry: one number written in two ways, another
\* number, and an empty href
RawNumbers ==
    { <<"2", "0", "6">> \o Subscriber(7),
      <<"+", "1", "2", "0", "6">> \o Subscriber(7),
      <<"4", "2", "5">> \o Subscriber(7),
      <<>> }

PhoneLists == UNION { [1..n -> RawNumbers] : n \in 0..MaxPhones }

CtIdle ==
    /\ phone_data = <<>>
    /\ contact_case = "read"
    /\ phone_numbers = <<>>
    /\ Phone = <<>>
    /\ ctPc = "idle"

\* scraper.py:241-297 and 316-385: the record starts with Phone '' and no
\* phone_numbers key; an unreachable page leaves the sentinel in every
\* field present, a failure of the contact script leaves the fields as they
\* were, else the list is made and joined
CT_Scrape ==
    /\ ctPc = "call"
    /\ ctPc' = "done"
    /\ CASE contact_case = "unreachable" ->
              /\ Phone' = SkippedText
              /\ phone_numbers' = <<>>
         [] contact_case = "failed" ->
              /\ Phone' = <<>>
              /\ phone_numbers' = <<>>
         [] OTHER ->
              LET list == CollectPhones(phone_data, <<>>)
              IN /\ phone_numbers' = <<list>>
                 /\ Phone' = LegacyPhone(list)
    /\ UNCHANGED <<phone_data, contact_case>>

\* the variables of the models added to the crawler, the controller, the
\* phone formatter, the transactions and the brochure
moreVars == <<ctVars>>

MoreIdle == CtIdle

\* the state of the crawler no operation of this module leaves alone
otherVars == <<ctlVars, phoneVars, txVars, brVars, moreVars>>

----------------------------------------------------------------------------
(* A caller of one crawler: any sequence of start_browser, close_browser,  *)
(* get_links, scrape_details and scrape_property (crawler_app/app.py:56-140 *)
(* and the verify scripts call the methods one by one)                      *)

VARIABLES
    api,     \* the last call: its name, the driver handle before it, and
             \* whether it raised
    calls    \* the number of calls made

apiVars == <<api, calls>>

NoCall == [call |-> "none", pre |-> None, raised |-> FALSE]

ApiIdle == glPc = "idle" /\ exPc = "idle" /\ calls < MaxCalls

ApiFrame == UNCHANGED <<argVars, cfgVars, runVars, vector_db, otherVars>>

\* scraper.py:67-78
Api_start_browser ==
    /\ ApiIdle
    /\ \E fault \in StartFaults :
          LET s == StartBrowser(fault)
          IN /\ SetSession(s)
             /\ api' = [call |-> "start_browser", pre |-> playwright,
                        raised |-> s.raised]
    /\ calls' = calls + 1
    /\ ApiFrame
    /\ UNCHANGED <<nav, siteVars, glArgs, glVars, dbVars, exVars>>

\* scraper.py:80-94
Api_close_browser ==
    /\ ApiIdle
    /\ \E fault \in CloseFaults :
          LET s == CloseBrowser(fault)
          IN /\ SetSession(s)
             /\ api' = [call |-> "close_browser", pre |-> playwright,
                        raised |-> s.raised]
    /\ calls' = calls + 1
    /\ ApiFrame
    /\ UNCHANGED <<nav, siteVars, glArgs, glVars, dbVars, exVars>>

\* a call of get_links
Api_get_links ==
    /\ ApiIdle
    /\ glPc' = "call"
    /\ api' = [call |-> "get_links", pre |-> playwright, raised |-> FALSE]
    /\ calls' = calls + 1
    /\ ApiFrame
    /\ UNCHANGED <<results, cards, page_num, first_name_before, harvested,
                   sessVars, nav, siteVars, glArgs, dbVars, exVars>>

Api_GetLinksStep ==
    /\ GetLinksStep
    /\ ApiFrame
    /\ UNCHANGED <<apiVars, dbVars, exVars>>

\* get_links has returned or raised
Api_GotLinks ==
    /\ glPc \in {"returned", "raised"}
    /\ api' = [api EXCEPT !.raised = (glPc = "raised")]
    /\ glPc' = "idle"
    /\ results' = <<>>
    /\ cards' = <<>>
    /\ page_num' = 0
    /\ first_name_before' = ""
    /\ harvested' = <<>>
    /\ sitePos' = 1
    /\ pendingClicks' = 0
    /\ slowClicks' = 0
    /\ ApiFrame
    /\ UNCHANGED <<site, calls, sessVars, nav, glArgs, dbVars, exVars>>

ApiUrls ==
    { <<Origin, "/people", "/ann-lee">>, <<Origin, "/properties", "/details", "/p1">> }

\* a call of scrape_details or of scrape_property
Api_scrape ==
    /\ ApiIdle
    /\ \E person \in BOOLEAN, url \in ApiUrls :
          /\ ex_person' = person
          /\ cur_url' = url
          /\ api' = [call |-> IF person THEN "scrape_details"
                              ELSE "scrape_property",
                     pre |-> playwright, raised |-> FALSE]
    /\ exPc' = "call"
    /\ linkLog' = <<>>
    /\ calls' = calls + 1
    /\ ApiFrame
    /\ UNCHANGED <<data, exError, store, sessVars, nav, siteVars, glArgs, glVars>>

Api_ExtractStep ==
    /\ ExtractStep
    /\ ApiFrame
    /\ UNCHANGED <<apiVars, siteVars, glArgs, glVars>>

\* the extractor has returned or raised
Api_Extracted ==
    /\ exPc \in {"returned", "raised"}
    /\ api' = [api EXCEPT !.raised = (exPc = "raised")]
    /\ exPc' = "idle"
    /\ ApiFrame
    /\ UNCHANGED <<calls, ex_person, cur_url, data, exError, sessVars, nav,
                   siteVars, glArgs, glVars, dbVars>>

----------------------------------------------------------------------------
(* Specifications *)

vars == <<sessVars, nav, siteVars, glArgs, glVars, dbVars, vector_db, exVars,
          argVars, cfgVars, runVars, apiVars, otherVars>>

SessInit ==
    /\ playwright = None
    /\ browser = None
    /\ context = None
    /\ page = None
    /\ live = NoneLive
    /\ nav = NoNav

\* the three call sites of get_links: run_pipeline.py:120, 181-187 and 230
CallProfiles ==
    { [card |-> CoveoCard, link |-> TitleLink, name |-> None],
      [card |-> PropCard, link |-> None, name |-> PropHeading],
      [card |-> None, link |-> TitleLink, name |-> None] }

DirectoryUrls ==
    { <<Origin, "/people">>,
      <<StagingOrigin, "/people", "?", "first=10", "&", "q=x">> }

GLInit ==
    /\ sitePos = 1
    /\ pendingClicks = 0
    /\ slowClicks = 0
    /\ results = <<>>
    /\ cards = <<>>
    /\ page_num = 0
    /\ first_name_before = ""
    /\ harvested = <<>>

ExInit ==
    /\ ex_person = TRUE
    /\ cur_url = <<>>
    /\ data = NewPerson(<<>>)
    /\ exPc = "idle"
    /\ exError = ""
    /\ linkLog = <<>>

\* no pipeline run
RunIdle ==
    /\ args_url = <<>>
    /\ mode = "auto"
    /\ args_limit = NoLimit
    /\ dry_run = TRUE
    /\ pinecone_key = FALSE
    /\ openai_key = FALSE
    /\ vdb = None
    /\ branch = "none"
    /\ runPc = "none"
    /\ main_results = <<>>
    /\ i = 0
    /\ teardown = FALSE
    /\ pipelineError = ""
    /\ exitError = FALSE

ApiIdleInit ==
    /\ api = NoCall
    /\ calls = 0

\* no request to the run controller, no helper called
OtherIdle ==
    /\ MoreIdle
    /\ CtlInit
    /\ PhoneIdle
    /\ TxIdle
    /\ BrIdle

AnnUrl == <<Origin, "/people", "/ann-lee">>

\* what an earlier run may have left in the content store
InitStores ==
    { {},
      {[ns |-> PersonNs, id |-> <<"broker", "ann", "lee">>, url |-> AnnUrl]},
      {[ns |-> DefaultNs, id |-> <<"broker", "ann", "lee">>, url |-> AnnUrl]} }

(* get_links alone: one call on a fresh crawler, for every site, limit and *)
(* call site                                                                *)

InitLinks ==
    /\ SessInit
    /\ GLInit
    /\ site \in Sites
    /\ directory_url \in DirectoryUrls
    /\ limit \in Limits
    /\ \E c \in CallProfiles :
          /\ card_selector = c.card
          /\ link_selector = c.link
          /\ name_selector = c.name
    /\ glPc = "call"
    /\ ExInit
    /\ vector_db = None
    /\ store = {}
    /\ RunIdle
    /\ ApiIdleInit
    /\ OtherIdle

LinksFrame ==
    UNCHANGED <<dbVars, vector_db, exVars, argVars, cfgVars, runVars, apiVars,
                otherVars>>

NextLinks ==
    \/ GL_Enter /\ LinksFrame
    \/ GL_Goto /\ LinksFrame
    \/ GL_Harvest /\ LinksFrame
    \/ GL_HarvestRaises /\ LinksFrame
    \/ GL_Next /\ LinksFrame
    \/ GL_Verify /\ LinksFrame
    \/ GL_SiteRender /\ LinksFrame

SpecLinks == InitLinks /\ [][NextLinks]_vars

(* get_links on a site that never comes to an end: the Next control stays  *)
(* visible, and clicks are rendered, rendered late or lost. get_links is    *)
(* sequential code whose waits all have timeouts, so it always takes its    *)
(* next step.                                                               *)

InitPaging ==
    /\ InitLinks
    /\ site \in StickySites
    /\ directory_url = <<Origin, "/people">>

SpecPaging ==
    InitPaging /\ [][NextLinks]_vars /\ WF_vars(GetLinksStep /\ LinksFrame)

(* one crawler under any sequence of calls *)

InitApi ==
    /\ SessInit
    /\ GLInit
    /\ site = [pages |-> << <<CardAnn, CardBob>> >>, sticky |-> FALSE]
    /\ directory_url = <<Origin, "/people">>
    /\ limit = NoLimit
    /\ card_selector = CoveoCard
    /\ link_selector = TitleLink
    /\ name_selector = None
    /\ glPc = "idle"
    /\ ExInit
    /\ vector_db \in {None, "VectorDB"}
    /\ store = {}
    /\ RunIdle
    /\ ApiIdleInit
    /\ OtherIdle

NextApi ==
    \/ Api_start_browser
    \/ Api_close_browser
    \/ Api_get_links
    \/ Api_GetLinksStep
    \/ Api_GotLinks
    \/ Api_scrape
    \/ Api_ExtractStep
    \/ Api_Extracted

SpecApi == InitApi /\ [][NextApi]_vars

(* one run of the pipeline, which stop_scrape may end *)

RunUrls ==
    { <<Origin, "/people">>,
      <<Origin, "/people", "/ann-lee">>,
      <<StagingOrigin, "/people", "?", "first=10">>,
      <<Origin, "/properties", "/details", "/p1">>,
      <<Origin, "/properties", "/properties-for-lease", "?", "q=x">> }

RunSites ==
    { [pages |-> << <<CardAnn, CardBob>> >>, sticky |-> FALSE],
      [pages |-> << <<CardAnnAbs, CardNoLink>>, <<CardNoName, CardAnn>> >>,
       sticky |-> FALSE] }

\* dry run; no keys; the Pinecone key alone; both keys
RunConfigs ==
    { [dry |-> TRUE, pinecone |-> TRUE, openai |-> TRUE],
      [dry |-> FALSE, pinecone |-> FALSE, openai |-> FALSE],
      [dry |-> FALSE, pinecone |-> TRUE, openai |-> FALSE],
      [dry |-> FALSE, pinecone |-> TRUE, openai |-> TRUE] }

Init ==
    /\ SessInit
    /\ GLInit
    /\ site \in RunSites
    /\ directory_url = <<>>
    /\ limit = NoLimit
    /\ card_selector = None
    /\ link_selector = None
    /\ name_selector = None
    /\ glPc = "idle"
    /\ ExInit
    /\ vector_db = None
    /\ store \in InitStores
    /\ args_url \in RunUrls
    /\ mode \in {"auto", "person", "property"}
    /\ args_limit \in Limits
    /\ \E c \in RunConfigs :
          /\ dry_run = c.dry
          /\ pinecone_key = c.pinecone
          /\ openai_key = c.openai
    /\ vdb = None
    /\ branch = "none"
    /\ runPc = "start"
    /\ main_results = <<>>
    /\ i = 0
    /\ teardown = FALSE
    /\ pipelineError = ""
    /\ exitError = FALSE
    /\ ApiIdleInit
    /\ OtherIdle

RunFrame == UNCHANGED <<apiVars, otherVars>>

Next ==
    \/ M_Start /\ RunFrame
    \/ M_GetLinks /\ RunFrame
    \/ M_Enumerated /\ RunFrame
    \/ M_Loop /\ RunFrame
    \/ M_Single /\ RunFrame
    \/ M_Extract /\ RunFrame
    \/ M_Extracted /\ RunFrame
    \/ M_Finally /\ RunFrame
    \/ StopScrape /\ RunFrame

Spec == Init /\ [][Next]_vars

(* the run controller under any interleaving of requests and tasks *)

\* a crawler nobody uses
CrawlerIdle ==
    /\ SessInit
    /\ GLInit
    /\ site = [pages |-> << <<CardAnn>> >>, sticky |-> FALSE]
    /\ directory_url = <<>>
    /\ limit = NoLimit
    /\ card_selector = None
    /\ link_selector = None
    /\ name_selector = None
    /\ glPc = "idle"
    /\ ExInit
    /\ vector_db = None
    /\ store = {}
    /\ RunIdle
    /\ ApiIdleInit

crawlerVars == <<sessVars, nav, siteVars, glArgs, glVars, dbVars, vector_db,
                 exVars, argVars, cfgVars, runVars, apiVars>>

InitCtl == CrawlerIdle /\ OtherIdle

CtlFrame == UNCHANGED <<crawlerVars, phoneVars, txVars, brVars, moreVars>>

NextCtl ==
    \/ start_scrape_internal /\ CtlFrame
    \/ stop_scrape /\ CtlFrame
    \/ stop_scrape_done /\ CtlFrame
    \/ \E t \in Tasks : T_Begin(t) /\ CtlFrame
    \/ \E t \in Tasks : T_Spawn(t) /\ CtlFrame
    \/ \E t \in Tasks : T_Assign(t) /\ CtlFrame
    \/ \E t \in Tasks : P_Exit(t) /\ CtlFrame
    \/ \E t \in Tasks : T_Stream(t) /\ CtlFrame
    \/ \E t \in Tasks : T_Finally(t) /\ CtlFrame

SpecCtl == InitCtl /\ [][NextCtl]_vars

(* format_phone applied to a phone string, and to its own result *)

InitPhone ==
    /\ CrawlerIdle
    /\ MoreIdle
    /\ CtlInit
    /\ phone_str \in PhoneInputs
    /\ phone_once = NoString
    /\ phone_twice = NoString
    /\ phonePc = "call"
    /\ TxIdle
    /\ BrIdle

PhoneFrame == UNCHANGED <<crawlerVars, ctlVars, txVars, brVars, moreVars>>

NextPhone ==
    \/ FP_Call /\ PhoneFrame
    \/ FP_Again /\ PhoneFrame

SpecPhone == InitPhone /\ [][NextPhone]_vars

(* the transactions of one profile page *)

InitTx ==
    /\ CrawlerIdle
    /\ MoreIdle
    /\ CtlInit
    /\ PhoneIdle
    /\ tx_page \in TxPages
    /\ tx_out = <<>>
    /\ txPc = "call"
    /\ BrIdle

TxFrame == UNCHANGED <<crawlerVars, ctlVars, phoneVars, brVars, moreVars>>

NextTx == TX_Extract /\ TxFrame

SpecTx == InitTx /\ [][NextTx]_vars

(* the brochure of one property page *)

InitBrochure ==
    /\ CrawlerIdle
    /\ MoreIdle
    /\ CtlInit
    /\ PhoneIdle
    /\ TxIdle
    /\ property_url \in PropertyUrls
    /\ candidates \in CandidateLists
    /\ b_link = <<>>
    /\ b_link_modal = <<>>
    /\ brochure_url = <<>>
    /\ brPc = "call"

BrochureFrame == UNCHANGED <<crawlerVars, ctlVars, phoneVars, txVars, moreVars>>

NextBrochure ==
    \/ BR_Main /\ BrochureFrame
    \/ BR_Modal /\ BrochureFrame

SpecBrochure == InitBrochure /\ [][NextBrochure]_vars

\* the contact block of scrape_details on every page of the bound
InitContact ==
    /\ CrawlerIdle
    /\ CtlInit
    /\ PhoneIdle
    /\ TxIdle
    /\ BrIdle
    /\ phone_data \in PhoneLists
    /\ contact_case \in ContactCases
    /\ phone_numbers = <<>>
    /\ Phone = <<>>
    /\ ctPc = "call"

ContactFrame == UNCHANGED <<crawlerVars, ctlVars, phoneVars, txVars, brVars>>

NextContact == CT_Scrape /\ ContactFrame

SpecContact == InitContact /\ [][NextContact]_vars

----------------------------------------------------------------------------
(* The claims *)

AllUnset ==
    playwright = None /\ browser = None /\ context = None /\ page = None

AllClosed == \A k \in DOMAIN live : live[k] = 0

\* C1 (SpecLinks): at no point of get_links, and so not in the list it
\* returns, do two candidates have the same (Name, URL) pair, whatever the
\* site serves, also when a card comes again on a later page or a page is
\* harvested again after a stalled Next click.
C1_NoDuplicatePairs ==
    \A a, b \in 1..Len(results) :
        a # b => ~ (results[a].Name = results[b].Name
                    /\ results[a].URL = results[b].URL)

\* get_links has returned two candidates or more after harvesting one page
\* of the site twice
C1_Witness ==
    /\ glPc = "returned"
    /\ Len(results) >= 2
    /\ \E a, b \in 1..Len(harvested) : a < b /\ harvested[a] = harvested[b]

\* C2 (SpecLinks): with a limit given (any value >= 0), get_links returns no
\* more candidates than the limit, on every return path.
C2_WithinLimit ==
    (glPc = "returned" /\ limit # NoLimit) => Len(results) <= limit[1]

IsUpsertNs(ns) == ns \in {PersonNs, PropertyNs}

\* C3 (Spec): every write issued for a link comes right after the upsert's
\* own existence check of the same URL in the namespace of the record's
\* kind, and that check answered false; after an existence check that
\* answered true no write is issued for the link.
C3_CheckBeforeWrite ==
    \A k \in 1..Len(linkLog) :
        /\ linkLog[k].op = "write" =>
              /\ k > 1
              /\ linkLog[k - 1].op = "exists"
              /\ linkLog[k - 1].url = linkLog[k].url
              /\ linkLog[k - 1].ns = linkLog[k].ns
              /\ linkLog[k].ns = IF ex_person THEN PersonNs ELSE PropertyNs
              /\ ~ linkLog[k - 1].result
        /\ (linkLog[k].op = "exists" /\ linkLog[k].result) =>
              \A m \in (k + 1)..Len(linkLog) : linkLog[m].op # "write"

\* an upsert found the URL in its namespace and returned without a write
C3_Witness ==
    /\ exPc = "returned"
    /\ linkLog # <<>>
    /\ linkLog[Len(linkLog)].op = "exists"
    /\ IsUpsertNs(linkLog[Len(linkLog)].ns)
    /\ linkLog[Len(linkLog)].result

\* scrape_details has returned from a navigation that failed
Unreachable ==
    /\ ex_person
    /\ exPc = "returned"
    /\ linkLog # <<>>
    /\ linkLog[Len(linkLog)].op = "goto"
    /\ ~ linkLog[Len(linkLog)].result

\* the record of an unreachable profile: every field but URL is the
\* sentinel, and the page was tried once
UnreachableRecord(sentinel) ==
    Unreachable =>
        /\ \A f \in PersonFields \ {"URL"} : data[f] = sentinel
        /\ data["URL"] = NormalizeUrl(cur_url)
        /\ Cardinality({k \in 1..Len(linkLog) : linkLog[k].op = "goto"}) = 1

\* main goes on from an unreachable profile to the next link (or, for a
\* single profile, to its end) with nothing raised, unless it is stopped
UnreachableGoesOn ==
    (Unreachable /\ runPc = "extract" /\ runPc' # runPc /\ runPc' # "killed") =>
        /\ runPc' = AfterItem(branch)
        /\ i' = i + 1
        /\ pipelineError' = pipelineError

\* C4 as stated (Spec): the sentinel of the record is the text
\* "SKIPPED (unreachable)".
C4_SpecSentinel == UnreachableRecord("SKIPPED (unreachable)")

\* C4 as amended (Spec): when the navigation to a profile fails,
\* scrape_details returns at once, with nothing raised and no second try, a
\* record whose every field but URL is "SKIPPED (Unreachable)", and the run
\* goes on to the next link.
C4_UnreachableSkipped ==
    [](UnreachableRecord(Skipped)) /\ [][UnreachableGoesOn]_vars

\* in a directory run, scrape_details came back from an unreachable profile
C4_Witness == Unreachable /\ runPc = "extract" /\ branch = "person_dir"

\* C5 (Spec): once a run has ended, page, context, browser and driver are
\* closed and the four handles are unset.
C5_ReleasedAtExit == runPc = "done" => (AllUnset /\ AllClosed)

\* C6 (Spec): a run that stop_scrape ends while its session is open has run
\* close_browser before the process ended.
C6_TeardownOnStop == (runPc = "killed" /\ playwright # None) => teardown

\* C7 (SpecApi): after close_browser, whichever close failed, nothing was
\* raised, every resource is closed and the four handles are unset.
C7_CloseSwallowsAndResets ==
    api.call = "close_browser" => (~ api.raised /\ AllUnset /\ AllClosed)

\* a call of start_browser on a crawler whose driver handle is set
StartWhileOpen ==
    calls' # calls /\ api'.call = "start_browser" /\ playwright # None

\* C8 (SpecApi): under any sequence of calls at most one browser and one
\* page are open, and start_browser on an open session changes nothing.
C8_OneSession ==
    /\ [](live["browser"] <= 1 /\ live["page"] <= 1)
    /\ [][StartWhileOpen => (UNCHANGED sessVars /\ ~ api'.raised)]_vars

\* start_browser was called on an open session
C8_Witness ==
    /\ api.call = "start_browser"
    /\ api.pre = "open"
    /\ page = "open"
    /\ live["browser"] = 1

\* C9 (SpecApi): a method entered with no page navigates on an open page.
C9_LazyInitOpensPage ==
    (nav.lazy /\ nav.page # "-") => nav.page = "open"

\* C10 as stated (Spec): an error of the existence check inside an upsert
\* drops the write.
C10_CheckErrorDropsWrite ==
    \A k \in 1..Len(linkLog) :
        (linkLog[k].op = "exists" /\ IsUpsertNs(linkLog[k].ns)
         /\ linkLog[k].error) =>
            \A m \in (k + 1)..Len(linkLog) : linkLog[m].op # "write"

\* no content-store error is raised out of exists or of an upsert, and an
\* existence check that failed answers false; inside an upsert the write is
\* then attempted
StoreErrorsContained ==
    /\ pipelineError # "store"
    /\ exError # "store"
    /\ \A k \in 1..Len(linkLog) :
          (linkLog[k].op = "exists" /\ linkLog[k].error) =>
              /\ ~ linkLog[k].result
              /\ IsUpsertNs(linkLog[k].ns) =>
                    (k < Len(linkLog) /\ linkLog[k + 1].op = "write")

\* a write that failed leaves the store as it was, and the upsert returns
FailedWriteDropped ==
    (exPc = "persist" /\ exPc' # "persist" /\ linkLog' # <<>>
     /\ linkLog'[Len(linkLog')].op = "write"
     /\ linkLog'[Len(linkLog')].error) =>
        (store' = store /\ exPc' = "returned")

\* C10 as amended (Spec): a content-store error never reaches the caller:
\* exists answers false on a query error; inside an upsert an error of the
\* existence check counts as "not stored" and the write is still attempted,
\* an error of the write drops the write, and the upsert returns normally.
C10_StoreErrorsNeverRaised ==
    [](StoreErrorsContained) /\ [][FailedWriteDropped]_vars

\* an upsert's write failed and the extractor returned
C10_Witness ==
    /\ exPc = "returned"
    /\ linkLog # <<>>
    /\ linkLog[Len(linkLog)].op = "write"
    /\ linkLog[Len(linkLog)].error

\* C11 (SpecCtl): at most one scraper subprocess runs at a time; a start
\* request handled while a subprocess runs is answered "already running",
\* and a stop request handled while none runs is answered "not running".
C11_OneSubprocess ==
    /\ Cardinality(RunningProcs) <= 1
    /\ (reply.req = "start" /\ reply.running > 0) =>
          reply.result = "already_running"
    /\ (reply.req = "stop" /\ reply.running = 0 /\ reply.result # "stopped") =>
          reply.result = "not_running"

\* C12 (Spec): in a dry run no operation is issued to the content store, no
\* existence query and no write, whatever the mode and the links, and the
\* store stays as it was.
C12_DryRunNoStoreOps ==
    /\ [](dry_run => \A k \in 1..Len(linkLog) : linkLog[k].op = "goto")
    /\ [][dry_run => store' = store]_vars

\* a dry run of a directory has ended after two links, one of them stored
\* by an earlier run
C12_Witness ==
    /\ dry_run
    /\ runPc = "done"
    /\ branch = "person_dir"
    /\ i >= 2
    /\ store # {}

\* C13 (SpecPhone): format_phone is idempotent: applied to its own result
\* it returns that result, for every non-empty input.
C13_PhoneIdempotent ==
    (phonePc = "twice" /\ phone_str # NoString /\ phone_str[1] # <<>>) =>
        phone_twice = phone_once

\* a number without "+" was formatted, and the result formatted again
C13_Witness ==
    /\ phonePc = "twice"
    /\ phone_str = << <<"(">> \o <<"2", "0", "6">> \o <<")", " ">> \o Subscriber(7) >>
    /\ phone_once = << <<"+", "1", "2", "0", "6">> \o Subscriber(7) >>

\* the input is ten characters, every one a digit
TenDigits(opt) ==
    /\ opt # NoString
    /\ Len(opt[1]) = 10
    /\ \A k \in 1..10 : opt[1][k] \in DigitChars

\* C14 as stated (SpecPhone): every input of ten digits yields "+1" followed
\* by the input.
C14_TenDigitsPlusOne ==
    (phonePc = "once" /\ TenDigits(phone_str)) =>
        phone_once = << <<"+", "1">> \o phone_str[1] >>

\* C14 as amended (SpecPhone): every input of ten digits that starts neither
\* with "426" nor with "1426" yields "+1" followed by the input.
C14_TenDigitsPlusOneUnless426 ==
    (phonePc = "once" /\ TenDigits(phone_str)
     /\ ~ StartsWith(phone_str[1], <<"4", "2", "6">>)
     /\ ~ StartsWith(phone_str[1], <<"1", "4", "2", "6">>)) =>
        phone_once = << <<"+", "1">> \o phone_str[1] >>

\* ten digits with area code 206 were formatted
C14_Witness ==
    /\ phonePc = "once"
    /\ phone_str = << <<"2", "0", "6">> \o Subscriber(7) >>

\* C15 (SpecPhone): when the digits of the input start with "426" or "1426",
\* the prefix is corrected to "425" or "1425" before the prefix by length is
\* chosen: "4261234567" yields "+14251234567", and so does "14261234567".
C15_AreaCodeCorrected ==
    (phonePc = "once" /\ phone_str # NoString /\ phone_str[1] # NotFound) =>
        LET digits == StripPhone(phone_str[1])
            rest3 == SubSeq(digits, 4, Len(digits))
            rest4 == SubSeq(digits, 5, Len(digits))
        IN /\ StartsWith(digits, <<"4", "2", "6">>) =>
                 phone_once = << (IF Len(digits) = 10 THEN <<"+", "1">>
                                  ELSE <<"+">>) \o <<"4", "2", "5">> \o rest3 >>
           /\ StartsWith(digits, <<"1", "4", "2", "6">>) =>
                 phone_once = << (IF Len(digits) = 10 THEN <<"+", "1">>
                                  ELSE <<"+">>) \o <<"1", "4", "2", "5">> \o rest4 >>
           /\ phone_str[1] = <<"4", "2", "6">> \o Subscriber(7) =>
                 phone_once = << <<"+", "1", "4", "2", "5">> \o Subscriber(7) >>
           /\ phone_str[1] = <<"1", "4", "2", "6">> \o Subscriber(7) =>
                 phone_once = << <<"+", "1", "4", "2", "5">> \o Subscriber(7) >>

\* "4261234567" was formatted
C15_Witness ==
    /\ phonePc = "once"
    /\ phone_str = << <<"4", "2", "6">> \o Subscriber(7) >>

\* the non-empty lines between the heading "Significant Transactions" and
\* the heading "Clients Represented" (or the end of the card)
TxWindow(pg) ==
    LET end_idx == FindLine(pg.body, EndMarker, 1)
        chunk == IF end_idx = 0 THEN pg.body
                 ELSE SubSeq(pg.body, 1, end_idx - 1)
    IN SelectSeq(chunk, IsNotBlank)

\* the list the lines of a card must give
TxExpected(lines) ==
    IF Len(lines) > 0 /\ Len(lines) % 4 = 0
    THEN [g \in 1..(Len(lines) \div 4) |->
            [kind |-> "tuple",
             Name |-> lines[4 * g - 3], Location |-> lines[4 * g - 2],
             Type |-> lines[4 * g - 1], Size |-> lines[4 * g]]]
    ELSE [k \in 1..Len(lines) |-> [kind |-> "text", text |-> <<lines[k]>>]]

\* C16 (SpecTx): a card of transactions whose non-empty lines are 4, 8, ...
\* gives one {Name, Location, Type, Size} tuple for every four lines, in
\* order; any other number of lines gives one entry per line; the entries of
\* one list are of one kind.
C16_TransactionsByFour ==
    (txPc = "done" /\ tx_page.header # "none") =>
        /\ tx_out = TxExpected(TxWindow(tx_page))
        /\ \A a, b \in 1..Len(tx_out) : tx_out[a].kind = tx_out[b].kind

\* the path of a URL: what stands after the origin and before the query and
\* the fragment, without a slash at its end
UrlPath(u) ==
    LET cut == {k \in 1..Len(u) : u[k] \in {"?", "#"}}
        upto == IF cut = {} THEN Len(u)
                ELSE (CHOOSE k \in cut : \A j \in cut : k <= j) - 1
        from == IF u # <<>> /\ u[1] \in Origins THEN 2 ELSE 1
    IN RStripSlash(SubSeq(u, from, upto))

\* C17 (SpecBrochure): the brochure URL never has the path of the property
\* page itself; a brochure found before the modal is opened is kept whatever
\* is found after it.
C17_BrochureNotThePage ==
    /\ brochure_url # <<>> => UrlPath(brochure_url[1]) # UrlPath(property_url)
    /\ (brPc = "done" /\ b_link # <<>>) => brochure_url = b_link

\* C18 (SpecPaging): get_links harvests at most 50 pages and comes to its
\* end, also on a site whose Next control stays visible for ever and whose
\* content no click changes; it then returns what it has collected.
C18_PaginationCapped ==
    /\ [](Len(harvested) <= SafetyCap /\ page_num <= SafetyCap + 1)
    /\ <>(glPc \in {"returned", "raised"})

\* get_links has returned at the safety cap, after 50 passes
C18_Witness ==
    /\ glPc = "returned"
    /\ Len(harvested) = SafetyCap
    /\ page_num = SafetyCap + 1
    /\ results # <<>>

\* C19 (SpecLinks): when the Next click and its one retry leave the cards
\* of a directory page as they were, pagination stops: the page is not
\* harvested again.
C19_StallEndsPagination ==
    card_selector = CoveoCard =>
        \A k \in 1..(Len(harvested) - 1) :
            site.pages[harvested[k]] # <<>> => harvested[k] # harvested[k + 1]

\* the namespace of the records of the run's category
CategoryNs == IF branch \in {"person_dir", "person_single"}
              THEN PersonNs ELSE PropertyNs

\* C20 (Spec): every existence check made for a link, the pipeline's
\* pre-scrape check included, queries the namespace of the record's category,
\* and a pre-scrape check of a URL stored there by an earlier run finds it.
C20_CheckInCategoryNamespace ==
    \A k \in 1..Len(linkLog) :
        linkLog[k].op = "exists" =>
            /\ linkLog[k].ns = CategoryNs
            /\ (~ linkLog[k].error
                /\ (\A m \in 1..Len(linkLog) : linkLog[m].op # "write")
                /\ \E r \in store : r.ns = CategoryNs /\ r.url = linkLog[k].url)
               => linkLog[k].result

\* the display name of the record the extractor made, as words
DisplayName ==
    IF ex_person
    THEN (IF data["First Name"] = "" THEN <<>> ELSE <<data["First Name"]>>)
         \o (IF data["Last Name"] = "" THEN <<>> ELSE <<data["Last Name"]>>)
    ELSE data["Property Name"]

IdPrefix == IF ex_person THEN <<"broker">> ELSE <<"prop">>

\* C21 (Spec): the identifier of every write made for a record is its kind's
\* prefix followed by the slug of the display name (whole, or its first
\* SlugCut characters), and by the slug of the record's URL when the name is
\* empty.
C21_IdFromNameOrUrl ==
    exPc = "returned" =>
        \A k \in 1..Len(linkLog) :
            (linkLog[k].op = "write" /\ linkLog[k].url = data["URL"]) =>
                IF DisplayName = <<>>
                THEN linkLog[k].id = IdPrefix \o slugifyUrl(data["URL"])
                ELSE linkLog[k].id \in
                        { IdPrefix \o slugify(DisplayName),
                          IdPrefix \o SlugPrefix(slugify(DisplayName), SlugCut) }

\* a person or property directory run with a content store
DirWithStore == branch \in {"person_dir", "property_dir"} /\ vdb # None

EnumerationUnreached ==
    runPc = "enumerate" /\ glPc \in {"returned", "raised"} /\ page_num = 0

\* C23 (Spec): a navigation failure during the enumeration leaves get_links
\* as an exception for the driver, and the failure of the navigation to a
\* detail page does not leave the extractor as one.
C23_EnumerationFailureRaised ==
    /\ EnumerationUnreached => glPc = "raised"
    /\ (exPc = "raised" /\ linkLog # <<>>) =>
          ~ (linkLog[Len(linkLog)].op = "goto" /\ linkLog[Len(linkLog)].error)

NoDuplicates(list) ==
    \A j, k \in 1..Len(list) : list[j] = list[k] => j = k

\* C24 as stated: every record scrape_details returns has a phone_numbers
\* list without duplicates, and Phone is that list joined with the
\* separator.
C24_SpecPhoneIsJoin ==
    ctPc = "done" =>
        /\ phone_numbers # <<>>
        /\ NoDuplicates(phone_numbers[1])
        /\ Phone = JoinPhones(phone_numbers[1])

\* C24 (SpecContact): in a record whose contact block was read,
\* phone_numbers holds no duplicate and Phone is the list joined with the
\* separator, or "Not Found" when the list is empty; in any other record
\* there is no phone_numbers list, and Phone is the unreachable sentinel or
\* empty.
C24_PhoneFromList ==
    ctPc = "done" =>
        IF contact_case = "read"
        THEN /\ phone_numbers # <<>>
             /\ NoDuplicates(phone_numbers[1])
             /\ Phone = IF phone_numbers[1] = <<>>
                        THEN NotFound
                        ELSE JoinPhones(phone_numbers[1])
        ELSE /\ phone_numbers = <<>>
             /\ Phone = IF contact_case = "unreachable"
                        THEN SkippedText ELSE <<>>

C24_Witness ==
    /\ ctPc = "done"
    /\ contact_case = "read"
    /\ Len(phone_data) = 2
    /\ Len(phone_numbers[1]) = 1
    /\ Phone = phone_numbers[1][1]

\* the positions of the separators of a URL
SeparatorsAt(u) == {k \in 1..Len(u) : u[k] \in Separators}

\* a query string, if there is one, starts at a "?", goes on with "&", and
\* every separator is followed by a parameter
WellFormedQuery(u) ==
    \A k \in SeparatorsAt(u) :
        /\ u[k] = "?" <=> (\A j \in SeparatorsAt(u) : k <= j)
        /\ k < Len(u)
        /\ u[k + 1] \notin Separators

\* C25 (SpecLinks): the URL get_links navigates to holds no numberOfResults
\* and no first parameter, and its query string is well formed.
C25_CleanedUrlWellFormed ==
    glPc \notin {"idle", "call"} =>
        /\ \A k \in 1..Len(directory_url) :
              directory_url[k] \notin CountParams \cup FirstParams
        /\ WellFormedQuery(directory_url)

\* the page shown holds a card with a link
LinkedCardShown ==
    \E k \in 1..Len(site.pages[sitePos]) : site.pages[sitePos][k].href # <<>>

\* C26 (Spec): in the auto branch for a directory, an enumeration that
\* reached a page with a linked card returns a link, and the loop hands
\* every enumerated item that has a URL to a detail extractor.
C26_AutoDirectoryVisitsLinks ==
    branch = "directory" =>
        /\ (runPc = "enumerate" /\ glPc = "returned" /\ page_num >= 1
               /\ LinkedCardShown)
              => results # <<>>
        /\ (runPc = "loop" /\ i <= Len(main_results)
               /\ main_results[i].URL # <<>>)
              => LinkOf(branch, main_results[i]) # <<>>

\* C27 (Spec): no step takes a record out of the content store: a write
\* never replaces a stored record of another URL, so records of distinct
\* URLs never share an identifier in a namespace.
C27_WriteKeepsOtherUrls ==
    [][\A r \in store :
          \/ r \in store'
          \/ \E w \in store' : w.ns = r.ns /\ w.id = r.id /\ w.url = r.url]_vars

\* C28 (Spec): after a failed navigation to a detail page, the extractor
\* makes no call of the content store for that link: neither the duplicate
\* check of an upsert nor a write.
C28_NoUpsertAfterFailedGoto ==
    \A j, k \in 1..Len(linkLog) :
        (j < k /\ linkLog[j].op = "goto" /\ linkLog[j].error) =>
            linkLog[k].op \notin {"exists", "write"}

\* C29 (SpecLinks): from one harvest pass of get_links to the next, the
\* site has advanced by at most one page.
C29_NoPageSkipped ==
    \A k \in 1..(Len(harvested) - 1) : harvested[k + 1] <= harvested[k] + 1

\* C30 (SpecCtl): a subprocess that is alive, once its task has assigned the
\* handle, is the one scraper_process refers to.
C30_HandleRefersToLive ==
    \A t \in Tasks :
        (proc[t] = "running" /\ task[t] # "spawned") => scraper_process = t

====
